---- MODULE Spec2Model ----
(***************************************************************************)
(* License compliance evaluation of folio-org/tc-module-eval.              *)
(*                                                                         *)
(* Strings are sequences of one-character strings, so that includes(),     *)
(* toLowerCase() and trim() are computed on characters as the code does.   *)
(***************************************************************************)
EXTENDS Integers, Sequences, FiniteSets, TLC

\* a call of checkLicenseCompliance
VARIABLES dependencies, depsIsArray, readmeContent, readmeIsString,
          pc, idx, issues, result

\* dependency extraction and the S003 criterion: the files and command
\* outcomes of the run, the position in the running function, the
\* dependencies / errors / warnings collected so far, the Map and the index
\* of deduplicateDependencies, and the CriterionResult
VARIABLES world, stage, extraction, uniqueMap, cursor, criterion

\* a function called on its own: the local variables of the running call,
\* what the calls made so far have returned, and the external commands run
\* and files written, in order
VARIABLES frame, returned, effects

complianceVars == <<dependencies, depsIsArray, readmeContent, readmeIsString,
                    pc, idx, issues, result>>

extractionVars == <<world, stage, extraction, uniqueMap, cursor, criterion>>

callVars == <<frame, returned, effects>>

vars == <<dependencies, depsIsArray, readmeContent, readmeIsString,
          pc, idx, issues, result,
          world, stage, extraction, uniqueMap, cursor, criterion,
          frame, returned, effects>>

(***************************************************************************)
(* Bounds of the explored inputs.                                          *)
(***************************************************************************)
\* longest dependencies array passed to checkLicenseCompliance
MaxDeps == 2
\* largest number of license strings carried by the dependencies of one call
MaxLicenses == 2

(***************************************************************************)
(* String primitives of the JavaScript runtime.                            *)
(***************************************************************************)
LowerOf ==
    ("A" :> "a") @@ ("B" :> "b") @@ ("C" :> "c") @@ ("D" :> "d") @@
    ("E" :> "e") @@ ("F" :> "f") @@ ("G" :> "g") @@ ("H" :> "h") @@
    ("I" :> "i") @@ ("J" :> "j") @@ ("K" :> "k") @@ ("L" :> "l") @@
    ("M" :> "m") @@ ("N" :> "n") @@ ("O" :> "o") @@ ("P" :> "p") @@
    ("Q" :> "q") @@ ("R" :> "r") @@ ("S" :> "s") @@ ("T" :> "t") @@
    ("U" :> "u") @@ ("V" :> "v") @@ ("W" :> "w") @@ ("X" :> "x") @@
    ("Y" :> "y") @@ ("Z" :> "z")

\* String.prototype.toLowerCase
toLowerCase(s) ==
    [i \in 1..Len(s) |-> IF s[i] \in DOMAIN LowerOf THEN LowerOf[s[i]] ELSE s[i]]

\* String.prototype.includes
includes(s, t) ==
    \E i \in 0..(Len(s) - Len(t)) : SubSeq(s, i + 1, i + Len(t)) = t

\* String.prototype.startsWith
startsWith(s, t) ==
    Len(t) <= Len(s) /\ SubSeq(s, 1, Len(t)) = t

\* String.prototype.trim
trim(s) ==
    LET keep == {i \in 1..Len(s) : s[i] # " "}
        lo   == CHOOSE i \in keep : \A j \in keep : i <= j
        hi   == CHOOSE i \in keep : \A j \in keep : j <= i
    IN  IF keep = {} THEN <<>> ELSE SubSeq(s, lo, hi)

(***************************************************************************)
(* utils/type-guards.ts                                                    *)
(***************************************************************************)
\* variant: the value is not trimmed before its length is tested
isNonEmptyString_noTrim(value) == Len(value) > 0

isNonEmptyString(value) == Len(trim(value)) > 0

\* variant: the version is not looked at
isValidDependency_nameOnly(dep) == isNonEmptyString(dep.name)

isValidDependency(dep) ==
    isNonEmptyString(dep.name) /\ isNonEmptyString(dep.version)

(***************************************************************************)
(* utils/license-policy.ts and its configuration files are not part of    *)
(* the sources at hand; the policy is modelled from the specification:     *)
(* a category table keyed by canonical name, an alias table, case folding, *)
(* and a special-exception list matched exactly or as a prefix.            *)
(***************************************************************************)
NoCategory == "NONE"

LicenseCategories ==
    (<<"M", "I", "T">> :> "A") @@
    (<<"M", "P", "L", "-", "2", ".", "0">> :> "B") @@
    (<<"E", "P", "L", "-", "2", ".", "0">> :> "B_WCL") @@
    (<<"L", "G", "P", "L", "-", "2", ".", "1">> :> "X") @@
    (<<"G", "P", "L", "-", "3", ".", "0">> :> "X")

LicenseVariations ==
    (<<"E", "c", "l", "i", "p", "s", "e">> :> <<"E", "P", "L", "-", "2", ".", "0">>)

SpecialExceptions ==
    {<<"o", "r", "g", ".", "h", "i", "b", "e", "r", "n", "a", "t", "e">>}

\* the canonical name for a name already folded to lower case
normalizeFolded(license, lower) ==
    IF \E v \in DOMAIN LicenseVariations : toLowerCase(v) = lower
    THEN LicenseVariations[CHOOSE v \in DOMAIN LicenseVariations : toLowerCase(v) = lower]
    ELSE IF \E c \in DOMAIN LicenseCategories : toLowerCase(c) = lower
    THEN CHOOSE c \in DOMAIN LicenseCategories : toLowerCase(c) = lower
    ELSE license

normalizeLicenseName(license) ==
    normalizeFolded(license, toLowerCase(trim(license)))

\* the category of a canonical name
categoryOfName(name) ==
    IF name \in DOMAIN LicenseCategories THEN LicenseCategories[name]
    ELSE NoCategory

getLicenseCategoryNormalized(license) ==
    categoryOfName(normalizeLicenseName(license))

isSpecialException(dependencyName) ==
    \E e \in SpecialExceptions : dependencyName = e \/ startsWith(dependencyName, e)

(***************************************************************************)
(* utils/license-compliance.ts                                             *)
(***************************************************************************)
PASS == "pass"
FAIL == "fail"
MANUAL == "manual"

NO_LICENSE_INFO == "NO_LICENSE_INFO"
UNKNOWN_LICENSE == "UNKNOWN_LICENSE"
UNDOCUMENTED_CATEGORY_B == "UNDOCUMENTED_CATEGORY_B"
CATEGORY_X_VIOLATION == "CATEGORY_X_VIOLATION"
PARSER_ERROR == "PARSER_ERROR"
NoIssueType == "NONE"

\* Array.prototype.join
RECURSIVE join(_, _)
join(seq, sep) ==
    IF Len(seq) = 0 THEN <<>>
    ELSE IF Len(seq) = 1 THEN seq[1]
    ELSE seq[1] \o sep \o join(Tail(seq), sep)

\* a reason string: its fixed wording and the text interpolated into it
Reason(text, detail) == [text |-> text, detail |-> detail]

DEFAULT_EVALUATION_FAILURE ==
    [status |-> MANUAL,
     reason |-> Reason("Unable to evaluate licenses", <<>>),
     issueType |-> UNKNOWN_LICENSE]

KeywordLgpl == <<"l", "g", "p", "l">>
KeywordLesser == <<"l", "e", "s", "s", "e", "r", " ", "g", "e", "n", "e", "r", "a", "l", " ", "p", "u", "b", "l", "i", "c">>
KeywordLesserLicense == <<"l", "e", "s", "s", "e", "r", " ", "g", "e", "n", "e", "r", "a", "l", " ", "p", "u", "b", "l", "i", "c", " ", "l", "i", "c", "e", "n", "s", "e">>
KeywordMpl == <<"m", "p", "l">>
KeywordMozilla == <<"m", "o", "z", "i", "l", "l", "a">>
KeywordMozillaLicense == <<"m", "o", "z", "i", "l", "l", "a", " ", "p", "u", "b", "l", "i", "c", " ", "l", "i", "c", "e", "n", "s", "e">>
KeywordEpl == <<"e", "p", "l">>
KeywordEclipse == <<"e", "c", "l", "i", "p", "s", "e">>
KeywordEclipseLicense == <<"e", "c", "l", "i", "p", "s", "e", " ", "p", "u", "b", "l", "i", "c", " ", "l", "i", "c", "e", "n", "s", "e">>
KeywordCddl == <<"c", "d", "d", "l">>
KeywordCommon == <<"c", "o", "m", "m", "o", "n", " ", "d", "e", "v", "e", "l", "o", "p", "m", "e", "n", "t">>
KeywordCommonLicense == <<"c", "o", "m", "m", "o", "n", " ", "d", "e", "v", "e", "l", "o", "p", "m", "e", "n", "t", " ", "a", "n", "d", " ", "d", "i", "s", "t", "r", "i", "b", "u", "t", "i", "o", "n", " ", "l", "i", "c", "e", "n", "s", "e">>

\* lower.includes('lgpl') || lower.includes('lesser general public')
isLGPLFolded(lower) ==
    includes(lower, KeywordLgpl) \/ includes(lower, KeywordLesser)

isLGPLLicense(license) ==
    IF ~isNonEmptyString(license) THEN FALSE
    ELSE isLGPLFolded(toLowerCase(license))

\* the keywords pushed for a license name already folded to lower case
keywordsOfFolded(lowerLicense) ==
    (IF includes(lowerLicense, KeywordLgpl) \/ includes(lowerLicense, KeywordLesser)
     THEN <<KeywordLgpl, KeywordLesserLicense>> ELSE <<>>)
    \o
    (IF includes(lowerLicense, KeywordMpl) \/ includes(lowerLicense, KeywordMozilla)
     THEN <<KeywordMpl, KeywordMozillaLicense, KeywordMozilla>> ELSE <<>>)
    \o
    (IF includes(lowerLicense, KeywordEpl) \/ includes(lowerLicense, KeywordEclipse)
     THEN <<KeywordEpl, KeywordEclipseLicense, KeywordEclipse>> ELSE <<>>)
    \o
    (IF includes(lowerLicense, KeywordCddl) \/ includes(lowerLicense, KeywordCommon)
     THEN <<KeywordCddl, KeywordCommon, KeywordCommonLicense>> ELSE <<>>)

getLicenseDocumentationKeywords(licenseName) ==
    IF ~isNonEmptyString(licenseName) THEN <<>>
    ELSE keywordsOfFolded(toLowerCase(licenseName))

\* keywords.some(keyword => content.includes(keyword.toLowerCase()))
someKeywordIn(keywords, content) ==
    \E k \in 1..Len(keywords) : includes(content, toLowerCase(keywords[k]))

\* variant: the README is searched without folding its case
isCategoryBLicenseDocumented_caseSensitive(dependency, readme) ==
    IF ~dependency.hasLicenses \/ ~isNonEmptyString(readme) THEN FALSE
    ELSE \E i \in 1..Len(dependency.licenses) :
            /\ isNonEmptyString(dependency.licenses[i])
            /\ getLicenseCategoryNormalized(dependency.licenses[i]) \in {"B", "B_WCL"}
            /\ someKeywordIn(getLicenseDocumentationKeywords(dependency.licenses[i]),
                             readme)

isCategoryBLicenseDocumented(dependency, readme) ==
    IF ~dependency.hasLicenses \/ ~isNonEmptyString(readme) THEN FALSE
    ELSE \E i \in 1..Len(dependency.licenses) :
            /\ isNonEmptyString(dependency.licenses[i])
            /\ getLicenseCategoryNormalized(dependency.licenses[i]) \in {"B", "B_WCL"}
            /\ someKeywordIn(getLicenseDocumentationKeywords(dependency.licenses[i]),
                             toLowerCase(readme))

isDocumentedInReadme(dependency, readme) ==
    IF ~isValidDependency(dependency) THEN FALSE
    ELSE IF includes(toLowerCase(readme), toLowerCase(dependency.name)) THEN TRUE
    ELSE isCategoryBLicenseDocumented(dependency, readme)

\* { ...dependency, licenses: [license] }
singleLicenseDep(dependency, license) ==
    [dependency EXCEPT !.hasLicenses = TRUE, !.licenses = <<license>>]

LicenseEvaluation(license, category, status, reason, issueType) ==
    [license |-> license, category |-> category, status |-> status,
     reason |-> reason, issueType |-> issueType]

\* the evaluation made of one license of a multi-license dependency, once its
\* category has been looked up
evaluateInCategory(category, license, dependency, readme) ==
    IF category = NoCategory THEN
        LicenseEvaluation(license, NoCategory, MANUAL,
            Reason("Unknown license", license), UNKNOWN_LICENSE)
    ELSE IF category = "A" THEN
        LicenseEvaluation(license, category, PASS,
            Reason("Category A license is approved", license), NoIssueType)
    ELSE IF category \in {"B", "B_WCL"} THEN
        IF isDocumentedInReadme(singleLicenseDep(dependency, license), readme)
        THEN LicenseEvaluation(license, category, PASS,
                Reason("Category B license is documented in README", license),
                NoIssueType)
        ELSE LicenseEvaluation(license, category, FAIL,
                Reason("Category B license not documented in README", license),
                UNDOCUMENTED_CATEGORY_B)
    ELSE IF ~(isLGPLLicense(license) /\ isSpecialException(dependency.name)) THEN
        LicenseEvaluation(license, category, FAIL,
            Reason("License is in Category X (prohibited)", license),
            CATEGORY_X_VIOLATION)
    ELSE IF isDocumentedInReadme(singleLicenseDep(dependency, license), readme) THEN
        LicenseEvaluation(license, category, PASS,
            Reason("LGPL license with special exception is documented", license),
            NoIssueType)
    ELSE
        LicenseEvaluation(license, category, FAIL,
            Reason("LGPL license requires documentation (special exception)",
                   license \o <<":">> \o dependency.name),
            UNDOCUMENTED_CATEGORY_B)

\* the evaluation pushed (or, for Category A, returned) for one license
evaluateOne(license, dependency, readme) ==
    evaluateInCategory(getLicenseCategoryNormalized(license), license, dependency, readme)

\* the positions of the Category A licenses
approvedPositions(licenses) ==
    {i \in 1..Len(licenses) : getLicenseCategoryNormalized(licenses[i]) = "A"}

\* the for-loop of evaluateMultipleLicenses: it returns at the first Category A
\* license it meets, and otherwise pushes one evaluation per license, in order
evaluateEach(licenses, dependency, readme) ==
    IF \E i \in 1..Len(licenses) : getLicenseCategoryNormalized(licenses[i]) = "A"
    THEN [returned |-> TRUE,
          value |-> <<evaluateOne(
                        licenses[CHOOSE i \in approvedPositions(licenses) :
                                    \A j \in 1..(i - 1) :
                                        getLicenseCategoryNormalized(licenses[j]) # "A"],
                        dependency, readme)>>,
          evaluations |-> <<>>]
    ELSE [returned |-> FALSE,
          value |-> <<>>,
          evaluations |-> [i \in 1..Len(licenses) |->
                              evaluateOne(licenses[i], dependency, readme)]]

isManual(e) == e.status = MANUAL

\* Array.prototype.some with the test e => e.status === status
someWithStatus(evaluations, status) ==
    \E i \in 1..Len(evaluations) : evaluations[i].status = status

\* Array.prototype.find with the test e => e.status === status: the position
\* of the first such evaluation, 0 when find returns undefined
findWithStatus(evaluations, status) ==
    IF someWithStatus(evaluations, status)
    THEN CHOOSE i \in 1..Len(evaluations) :
            /\ evaluations[i].status = status
            /\ \A j \in 1..(i - 1) : evaluations[j].status # status
    ELSE 0

\* evaluations.filter(e => e.status === MANUAL).map(e => e.license)
licensesOf(unknown) == [i \in 1..Len(unknown) |-> unknown[i].license]

\* the result returned when some license is unknown
manualReview(licenses, named) ==
    LicenseEvaluation(join(licenses, <<" ", "|", " ">>), NoCategory, MANUAL,
        Reason("Unknown licenses require manual review", named),
        UNKNOWN_LICENSE)

\* the fallback after the three searches
fallbackEvaluation(licenses, evaluations) ==
    IF Len(evaluations) > 0 THEN evaluations[1]
    ELSE LicenseEvaluation(join(licenses, <<" ", "|", " ">>), NoCategory,
            DEFAULT_EVALUATION_FAILURE.status,
            DEFAULT_EVALUATION_FAILURE.reason,
            DEFAULT_EVALUATION_FAILURE.issueType)

\* variant: only the first evaluation is looked at for a pass
combineEvaluations_firstOnly(licenses, evaluations) ==
    IF Len(evaluations) > 0 /\ evaluations[1].status = PASS THEN evaluations[1]
    ELSE IF someWithStatus(evaluations, MANUAL)
    THEN manualReview(licenses,
            join(licensesOf(SelectSeq(evaluations, isManual)), <<",", " ">>))
    ELSE IF someWithStatus(evaluations, FAIL)
    THEN evaluations[findWithStatus(evaluations, FAIL)]
    ELSE fallbackEvaluation(licenses, evaluations)

\* variant: the reason names the first unknown license only
combineEvaluations_firstUnknown(licenses, evaluations) ==
    IF someWithStatus(evaluations, PASS)
    THEN evaluations[findWithStatus(evaluations, PASS)]
    ELSE IF someWithStatus(evaluations, MANUAL)
    THEN manualReview(licenses, evaluations[findWithStatus(evaluations, MANUAL)].license)
    ELSE IF someWithStatus(evaluations, FAIL)
    THEN evaluations[findWithStatus(evaluations, FAIL)]
    ELSE fallbackEvaluation(licenses, evaluations)

\* variant: a failure is looked for before a pass
combineEvaluations_failureFirst(licenses, evaluations) ==
    IF someWithStatus(evaluations, FAIL)
    THEN evaluations[findWithStatus(evaluations, FAIL)]
    ELSE IF someWithStatus(evaluations, PASS)
    THEN evaluations[findWithStatus(evaluations, PASS)]
    ELSE IF someWithStatus(evaluations, MANUAL)
    THEN manualReview(licenses,
            join(licensesOf(SelectSeq(evaluations, isManual)), <<",", " ">>))
    ELSE fallbackEvaluation(licenses, evaluations)

\* the OR logic applied to the evaluations once the loop is over
combineEvaluations(licenses, evaluations) ==
    IF someWithStatus(evaluations, PASS)
    THEN evaluations[findWithStatus(evaluations, PASS)]
    ELSE IF someWithStatus(evaluations, MANUAL)
    THEN manualReview(licenses,
            join(licensesOf(SelectSeq(evaluations, isManual)), <<",", " ">>))
    ELSE IF someWithStatus(evaluations, FAIL)
    THEN evaluations[findWithStatus(evaluations, FAIL)]
    ELSE fallbackEvaluation(licenses, evaluations)

\* what evaluateMultipleLicenses returns once its loop is over
afterLoop(licenses, loop) ==
    IF loop.returned THEN loop.value[1]
    ELSE combineEvaluations(licenses, loop.evaluations)

evaluateMultipleLicenses(licenses, dependency, readme) ==
    IF Len(licenses) = 0 THEN
        LicenseEvaluation(<<"U", "n", "k", "n", "o", "w", "n">>, NoCategory, MANUAL,
            Reason("No license information available", <<>>), NO_LICENSE_INFO)
    ELSE afterLoop(licenses, evaluateEach(licenses, dependency, readme))

\* variant: the ' AND ' separator is not looked for
isUnsplitLicense_noAnd(license) ==
    \/ includes(license, <<"|">>)
    \/ includes(license, <<" ", "O", "R", " ">>)
    \/ (includes(license, <<"(">>) /\ includes(license, <<")">>))
    \/ includes(license, <<" ", "W", "I", "T", "H", " ">>)

\* the separators whose presence shows that a parser did not split a license
isUnsplitLicense(license) ==
    \/ includes(license, <<"|">>)
    \/ includes(license, <<" ", "O", "R", " ">>)
    \/ includes(license, <<" ", "A", "N", "D", " ">>)
    \/ (includes(license, <<"(">>) /\ includes(license, <<")">>))
    \/ includes(license, <<" ", "W", "I", "T", "H", " ">>)

\* an entry of the issues array; dependency is the reference to the element
\* of the input array, kept as its position
ComplianceIssue(ref, reason, issueType) ==
    [dependency |-> ref, reason |-> reason, issueType |-> issueType]

\* the issue pushed for a Category B license that is not documented
undocumentedCategoryB(ref, dependency, license) ==
    IF isSpecialException(dependency.name)
    THEN <<ComplianceIssue(ref,
            Reason("Category B license not documented in README (special exception)",
                   license \o <<":">> \o dependency.name),
            UNDOCUMENTED_CATEGORY_B)>>
    ELSE <<ComplianceIssue(ref,
            Reason("Category B license not documented in README", license),
            UNDOCUMENTED_CATEGORY_B)>>

\* the issue pushed for an LGPL special exception that is not documented
undocumentedException(ref, dependency, license) ==
    <<ComplianceIssue(ref,
        Reason("LGPL license requires documentation in README (special exception)",
               license \o <<":">> \o dependency.name),
        UNDOCUMENTED_CATEGORY_B)>>

\* variant: the special exception is granted to any Category X license
singleLicenseIssues_anyException(category, ref, dependency, license, readme) ==
    IF category = NoCategory THEN
        <<ComplianceIssue(ref,
            Reason("Unknown license - requires manual review", license),
            UNKNOWN_LICENSE)>>
    ELSE IF category = "X" THEN
        IF isSpecialException(dependency.name) THEN
            IF ~isDocumentedInReadme(dependency, readme)
            THEN undocumentedException(ref, dependency, license)
            ELSE <<>>
        ELSE <<ComplianceIssue(ref,
                Reason("License is in Category X (prohibited)", license),
                CATEGORY_X_VIOLATION)>>
    ELSE IF category \in {"B", "B_WCL"} THEN
        IF ~isDocumentedInReadme(dependency, readme)
        THEN undocumentedCategoryB(ref, dependency, license)
        ELSE <<>>
    ELSE <<>>

\* the single-license branch once the category has been looked up: the issues
\* it pushes
singleLicenseIssues(category, ref, dependency, license, readme) ==
    IF category = NoCategory THEN
        <<ComplianceIssue(ref,
            Reason("Unknown license - requires manual review", license),
            UNKNOWN_LICENSE)>>
    ELSE IF category = "X" THEN
        IF isLGPLLicense(license) /\ isSpecialException(dependency.name) THEN
            IF ~isDocumentedInReadme(dependency, readme)
            THEN undocumentedException(ref, dependency, license)
            ELSE <<>>
        ELSE <<ComplianceIssue(ref,
                Reason("License is in Category X (prohibited)", license),
                CATEGORY_X_VIOLATION)>>
    ELSE IF category \in {"B", "B_WCL"} THEN
        IF ~isDocumentedInReadme(dependency, readme)
        THEN undocumentedCategoryB(ref, dependency, license)
        ELSE <<>>
    ELSE <<>>

\* the single-license branch of checkLicenseCompliance
evaluateSingleLicense(ref, dependency, license, readme) ==
    singleLicenseIssues(getLicenseCategoryNormalized(license),
                        ref, dependency, license, readme)

(***************************************************************************)
(* The inputs of a call.                                                   *)
(***************************************************************************)
LicensePool ==
    { <<"m", "i", "t">>,
      <<"M", "P", "L", "-", "2", ".", "0">>,
      <<"E", "c", "l", "i", "p", "s", "e">>,
      <<"L", "G", "P", "L", "-", "2", ".", "1">>,
      <<"G", "P", "L", "-", "3", ".", "0">>,
      <<"C", "u", "s", "t", "o", "m">>,
      <<"F", "o", "o">>,
      <<" ">>,
      <<"M", "I", "T", "|", "G", "P", "L">>,
      <<"A", " ", "O", "R", " ", "B">>,
      <<"A", " ", "A", "N", "D", " ", "B">>,
      <<"(", "m", "i", "t", ")">> }

HibernateName == <<"o", "r", "g", ".", "h", "i", "b", "e", "r", "n", "a", "t", "e", ":", "c", "o", "r", "e">>
PlainName == <<"a", ":", "d", "e", "p">>

NamePool == {HibernateName, PlainName}

ReadmePool ==
    { <<>>,
      <<"u", "s", "e", "s", " ", "L", "G", "P", "L">>,
      <<"M", "o", "z", "i", "l", "l", "a", " ", "o", "k">>,
      <<"O", "R", "G", ".", "H", "I", "B", "E", "R", "N", "A", "T", "E", ":", "C", "O", "R", "E">> }

Dependency(name, version, hasLicenses, licenses) ==
    [name |-> name, version |-> version,
     hasLicenses |-> hasLicenses, licenses |-> licenses]

LicenseLists(n) == UNION {[1..k -> LicensePool] : k \in 0..n}

\* the dependency objects carrying at most n license strings; hasLicenses is
\* FALSE when the licenses field is undefined
DependencyPool(n) ==
    {Dependency(name, <<"1">>, TRUE, ls) : name \in NamePool, ls \in LicenseLists(n)}
    \cup {Dependency(name, <<"1">>, FALSE, <<>>) : name \in NamePool}
    \cup {Dependency(PlainName, <<>>, FALSE, <<>>)}
    \cup (IF n = 0 THEN {}
          ELSE {Dependency(<<" ">>, <<"1">>, TRUE, <<<<"G", "P", "L", "-", "3", ".", "0">>>>)})

\* the arrays of at most n dependencies carrying at most budget licenses
RECURSIVE DependencyLists(_, _)
DependencyLists(n, budget) ==
    {<<>>} \cup
    (IF n = 0 THEN {}
     ELSE UNION {{<<d>> \o rest : rest \in DependencyLists(n - 1, budget - Len(d.licenses))}
                 : d \in DependencyPool(budget)})

NoResult == [compliant |-> FALSE, issues |-> <<>>, returned |-> FALSE]

NoCriterion == [status |-> "NONE", evidence |-> "NONE", details |-> "NONE"]

EmptyExtraction == [dependencies |-> <<>>, errors |-> <<>>, warnings |-> <<>>]

\* no extraction is running
NoExtraction ==
    /\ world = [kind |-> "none"]
    /\ stage = "idle"
    /\ extraction = EmptyExtraction
    /\ uniqueMap = <<>>
    /\ cursor = 0
    /\ criterion = NoCriterion

NoFrame == [status |-> "none"]

\* no function is called on its own
NoCall ==
    /\ frame = NoFrame
    /\ returned = <<>>
    /\ effects = <<>>

\* no call of checkLicenseCompliance is running
NoComplianceCall ==
    /\ dependencies = <<>>
    /\ depsIsArray = TRUE
    /\ readmeContent = <<>>
    /\ readmeIsString = TRUE
    /\ pc = "idle"
    /\ idx = 1
    /\ issues = <<>>
    /\ result = NoResult

Init ==
    /\ \/ /\ depsIsArray = TRUE
          /\ dependencies \in DependencyLists(MaxDeps, MaxLicenses)
       \/ /\ depsIsArray = FALSE
          /\ dependencies = <<>>
    /\ \/ /\ readmeIsString = TRUE
          /\ readmeContent \in ReadmePool
       \/ /\ readmeIsString = FALSE
          /\ readmeContent = <<"u", "s", "e", "s", " ", "L", "G", "P", "L">>
    /\ pc = "call"
    /\ idx = 1
    /\ issues = <<>>
    /\ result = NoResult
    /\ NoExtraction
    /\ NoCall

(***************************************************************************)
(* checkLicenseCompliance, one action per path through its body.           *)
(***************************************************************************)
\* if (!Array.isArray(dependencies)) return { compliant: false, issues: [] }
RejectDependencies ==
    /\ pc = "call"
    /\ ~depsIsArray
    /\ result' = [compliant |-> FALSE, issues |-> <<>>, returned |-> TRUE]
    /\ pc' = "done"
    /\ UNCHANGED <<dependencies, depsIsArray, readmeContent, readmeIsString, idx, issues>>
    /\ UNCHANGED extractionVars
    /\ UNCHANGED callVars

\* a readmeContent that is not a string is replaced by ''
EnterLoop ==
    /\ pc = "call"
    /\ depsIsArray
    /\ readmeContent' = IF readmeIsString THEN readmeContent ELSE <<>>
    /\ readmeIsString' = TRUE
    /\ pc' = "loop"
    /\ UNCHANGED <<dependencies, depsIsArray, idx, issues, result>>
    /\ UNCHANGED extractionVars
    /\ UNCHANGED callVars

allLicenses(dependency) == SelectSeq(dependency.licenses, isNonEmptyString)

unsplitLicenses(dependency) == SelectSeq(allLicenses(dependency), isUnsplitLicense)

AtDependency ==
    /\ pc = "loop"
    /\ idx <= Len(dependencies)

\* variant: a new issue is put in front of the earlier ones
Continue_prepend(pushed) ==
    /\ issues' = pushed \o issues
    /\ idx' = idx + 1
    /\ UNCHANGED <<dependencies, depsIsArray, readmeContent, readmeIsString, pc, result>>
    /\ UNCHANGED extractionVars
    /\ UNCHANGED callVars

Continue(pushed) ==
    /\ issues' = issues \o pushed
    /\ idx' = idx + 1
    /\ UNCHANGED <<dependencies, depsIsArray, readmeContent, readmeIsString, pc, result>>
    /\ UNCHANGED extractionVars
    /\ UNCHANGED callVars

\* the issue pushed for a dependency whose licenses field is missing or empty
noLicenseInformation(ref) ==
    <<ComplianceIssue(ref,
        Reason("No license information available", <<>>), NO_LICENSE_INFO)>>

\* the issue pushed when no entry of licenses is a non-empty string
noValidLicense(ref) ==
    <<ComplianceIssue(ref,
        Reason("No valid license information available", <<>>), NO_LICENSE_INFO)>>

\* the issue pushed when some license still holds a separator
parserContractViolation(ref, dependency) ==
    <<ComplianceIssue(ref,
        Reason("Parser error: Licenses not properly split (found separators in)",
               join(unsplitLicenses(dependency), <<",", " ">>)),
        PARSER_ERROR)>>

\* the issue pushed for an evaluation that failed or needs manual review
issueOfEvaluation(ref, evaluation) ==
    IF evaluation.status \in {FAIL, MANUAL}
    THEN <<ComplianceIssue(ref, evaluation.reason, evaluation.issueType)>>
    ELSE <<>>

\* the multi-license branch of checkLicenseCompliance
evaluateDualLicensed(ref, dependency, readme) ==
    issueOfEvaluation(ref,
        evaluateMultipleLicenses(allLicenses(dependency), dependency, readme))

\* the body of the for-loop: the issues one iteration pushes
dependencyIssues(ref, dependency, readme) ==
    IF ~isValidDependency(dependency) THEN <<>>
    ELSE IF ~dependency.hasLicenses \/ Len(dependency.licenses) = 0
        THEN noLicenseInformation(ref)
    ELSE IF Len(allLicenses(dependency)) = 0 THEN noValidLicense(ref)
    ELSE IF Len(unsplitLicenses(dependency)) > 0
        THEN parserContractViolation(ref, dependency)
    ELSE IF Len(allLicenses(dependency)) > 1
        THEN evaluateDualLicensed(ref, dependency, readme)
    ELSE evaluateSingleLicense(ref, dependency, allLicenses(dependency)[1], readme)

SkipInvalidDependency ==
    /\ AtDependency
    /\ ~isValidDependency(dependencies[idx])
    /\ Continue(<<>>)

NoLicenseInformation ==
    /\ AtDependency
    /\ isValidDependency(dependencies[idx])
    /\ ~dependencies[idx].hasLicenses \/ Len(dependencies[idx].licenses) = 0
    /\ Continue(noLicenseInformation(idx))

NoValidLicense ==
    /\ AtDependency
    /\ isValidDependency(dependencies[idx])
    /\ dependencies[idx].hasLicenses /\ Len(dependencies[idx].licenses) > 0
    /\ Len(allLicenses(dependencies[idx])) = 0
    /\ Continue(noValidLicense(idx))

ParserContractViolation ==
    /\ AtDependency
    /\ isValidDependency(dependencies[idx])
    /\ dependencies[idx].hasLicenses
    /\ Len(allLicenses(dependencies[idx])) > 0
    /\ Len(unsplitLicenses(dependencies[idx])) > 0
    /\ Continue(parserContractViolation(idx, dependencies[idx]))

MultipleLicenses ==
    /\ AtDependency
    /\ isValidDependency(dependencies[idx])
    /\ dependencies[idx].hasLicenses
    /\ Len(unsplitLicenses(dependencies[idx])) = 0
    /\ Len(allLicenses(dependencies[idx])) > 1
    /\ Continue(evaluateDualLicensed(idx, dependencies[idx], readmeContent))

SingleLicense ==
    /\ AtDependency
    /\ isValidDependency(dependencies[idx])
    /\ dependencies[idx].hasLicenses
    /\ Len(unsplitLicenses(dependencies[idx])) = 0
    /\ Len(allLicenses(dependencies[idx])) = 1
    /\ Continue(evaluateSingleLicense(idx, dependencies[idx],
                    allLicenses(dependencies[idx])[1], readmeContent))

\* return { compliant: issues.length === 0, issues }
ReturnResult ==
    /\ pc = "loop"
    /\ idx > Len(dependencies)
    /\ result' = [compliant |-> (Len(issues) = 0), issues |-> issues, returned |-> TRUE]
    /\ pc' = "done"
    /\ UNCHANGED <<dependencies, depsIsArray, readmeContent, readmeIsString, idx, issues>>
    /\ UNCHANGED extractionVars
    /\ UNCHANGED callVars

Next ==
    \/ RejectDependencies
    \/ EnterLoop
    \/ SkipInvalidDependency
    \/ NoLicenseInformation
    \/ NoValidLicense
    \/ ParserContractViolation
    \/ MultipleLicenses
    \/ SingleLicense
    \/ ReturnResult

Spec == Init /\ [][Next]_vars

(***************************************************************************)
(* Vocabulary of the properties.                                           *)
(***************************************************************************)
Returned == pc = "done"

\* the call went through the loop and returned its verdict
Evaluated == pc = "done" /\ depsIsArray

\* the issues recorded for the i-th dependency of the input
IssuesOf(i) == SelectSeq(result.issues, LAMBDA x : x.dependency = i)

IsBlank(s) == \A k \in 1..Len(s) : s[k] = " "

\* a record of the data model: name and version are both non-empty
WellFormed(d) == ~IsBlank(d.name) /\ ~IsBlank(d.version)

\* multi-license syntax left in a license string
HasSeparatorSyntax(l) ==
    \/ includes(l, <<"|">>)
    \/ includes(l, <<" ", "O", "R", " ">>)
    \/ includes(l, <<" ", "A", "N", "D", " ">>)
    \/ (includes(l, <<"(">>) /\ includes(l, <<")">>))

\* an atomic, non-empty license name
Atomic(l) ==
    /\ ~IsBlank(l)
    /\ ~HasSeparatorSyntax(l)
    /\ ~includes(l, <<" ", "W", "I", "T", "H", " ">>)

\* a dependency listing n or more licenses, all of them atomic names
ListsAtomic(d, n) ==
    /\ WellFormed(d)
    /\ d.hasLicenses
    /\ Len(d.licenses) >= n
    /\ \A k \in 1..Len(d.licenses) : Atomic(d.licenses[k])

\* the issue kind of license l evaluated on its own for dependency d
KindAlone(d, l) ==
    LET alone == evaluateSingleLicense(0, singleLicenseDep(d, l), l, readmeContent)
    IN  IF Len(alone) = 0 THEN NoIssueType ELSE alone[1].issueType

CompliantAlone(d, l) == KindAlone(d, l) = NoIssueType

\* the documentation test: the dependency name or a keyword of the license's
\* family appears, whatever the case, in the documentation
MentionedInDocumentation(d, l) ==
    LET doc == toLowerCase(readmeContent)
        keywords == getLicenseDocumentationKeywords(l)
    IN  \/ includes(doc, toLowerCase(d.name))
        \/ \E k \in 1..Len(keywords) : includes(doc, keywords[k])

\* a Prohibited weak-copyleft license on a special-exception dependency
OnExceptionPath(d, l) ==
    /\ getLicenseCategoryNormalized(l) = "X"
    /\ isLGPLLicense(l)
    /\ isSpecialException(d.name)

ExactlyOne(found, kind) == Len(found) = 1 /\ found[1].issueType = kind

(***************************************************************************)
(* C1: for every call of checkLicenseCompliance, malformed input included, *)
(* the verdict has compliant = TRUE exactly when its issues list is empty. *)
(***************************************************************************)
C1_CompliantIffNoIssues ==
    Returned => (result.compliant <=> Len(result.issues) = 0)

(***************************************************************************)
(* C2: a dependency whose licenses are all atomic names has no issue       *)
(* exactly when one of its licenses evaluates compliant on its own,        *)
(* whatever the length of the list and the position of that license.       *)
(***************************************************************************)
C2_AnyCompliantLicenseWins ==
    Evaluated =>
        \A i \in 1..Len(dependencies) :
            ListsAtomic(dependencies[i], 1) =>
                (IssuesOf(i) = <<>> <=>
                    \E k \in 1..Len(dependencies[i].licenses) :
                        CompliantAlone(dependencies[i], dependencies[i].licenses[k]))

\* a prohibited license listed first, a compliant one second, and no issue
C2_Witness ==
    /\ Evaluated
    /\ \E i \in 1..Len(dependencies) :
        /\ ListsAtomic(dependencies[i], 2)
        /\ KindAlone(dependencies[i], dependencies[i].licenses[1]) = CATEGORY_X_VIOLATION
        /\ CompliantAlone(dependencies[i], dependencies[i].licenses[2])
        /\ IssuesOf(i) = <<>>

(***************************************************************************)
(* C3: a dependency with a license string holding unsplit multi-license    *)
(* syntax yields exactly one issue, a parser contract violation, whatever  *)
(* else it lists.                                                          *)
(***************************************************************************)
C3_UnsplitIsParserViolation ==
    Evaluated =>
        \A i \in 1..Len(dependencies) :
            (/\ WellFormed(dependencies[i])
             /\ dependencies[i].hasLicenses
             /\ \E k \in 1..Len(dependencies[i].licenses) :
                    HasSeparatorSyntax(dependencies[i].licenses[k]))
            => ExactlyOne(IssuesOf(i), PARSER_ERROR)

\* an approved license listed next to an unsplit one: still a parser violation
C3_Witness ==
    /\ Evaluated
    /\ \E i \in 1..Len(dependencies) :
        /\ WellFormed(dependencies[i])
        /\ dependencies[i].hasLicenses
        /\ Len(dependencies[i].licenses) = 2
        /\ getLicenseCategoryNormalized(dependencies[i].licenses[1]) = "A"
        /\ HasSeparatorSyntax(dependencies[i].licenses[2])
        /\ ExactlyOne(IssuesOf(i), PARSER_ERROR)

(***************************************************************************)
(* C4: a single Prohibited weak-copyleft license on a special-exception    *)
(* dependency is compliant when the dependency name or a keyword of the    *)
(* license's family appears in the documentation, yields one               *)
(* undocumented-conditional issue otherwise; a Prohibited license outside  *)
(* that path yields prohibited-violation.                                  *)
(***************************************************************************)
C4_ExceptionDocumentedByNameOrKeyword ==
    Evaluated =>
        \A i \in 1..Len(dependencies) :
            (/\ ListsAtomic(dependencies[i], 1)
             /\ Len(dependencies[i].licenses) = 1
             /\ getLicenseCategoryNormalized(dependencies[i].licenses[1]) = "X")
            => IF OnExceptionPath(dependencies[i], dependencies[i].licenses[1])
               THEN IF MentionedInDocumentation(dependencies[i], dependencies[i].licenses[1])
                    THEN IssuesOf(i) = <<>>
                    ELSE ExactlyOne(IssuesOf(i), UNDOCUMENTED_CATEGORY_B)
               ELSE ExactlyOne(IssuesOf(i), CATEGORY_X_VIOLATION)

(***************************************************************************)
(* C5: a dependency with a single Conditional license is compliant exactly *)
(* when its name or a keyword of the license's family appears, whatever    *)
(* the case, in the documentation; otherwise it yields exactly one         *)
(* undocumented-conditional issue, and always so with empty documentation. *)
(***************************************************************************)
C5_ConditionalNeedsDocumentation ==
    Evaluated =>
        \A i \in 1..Len(dependencies) :
            (/\ ListsAtomic(dependencies[i], 1)
             /\ Len(dependencies[i].licenses) = 1
             /\ getLicenseCategoryNormalized(dependencies[i].licenses[1]) \in {"B", "B_WCL"})
            => /\ IF MentionedInDocumentation(dependencies[i], dependencies[i].licenses[1])
                  THEN IssuesOf(i) = <<>>
                  ELSE ExactlyOne(IssuesOf(i), UNDOCUMENTED_CATEGORY_B)
               /\ readmeContent = <<>> => ExactlyOne(IssuesOf(i), UNDOCUMENTED_CATEGORY_B)

\* documented by a keyword of the family written in another case, the
\* dependency name being absent from the documentation
C5_Witness ==
    /\ Evaluated
    /\ \E i \in 1..Len(dependencies) :
        /\ ListsAtomic(dependencies[i], 1)
        /\ Len(dependencies[i].licenses) = 1
        /\ getLicenseCategoryNormalized(dependencies[i].licenses[1]) = "B"
        /\ ~includes(toLowerCase(readmeContent), toLowerCase(dependencies[i].name))
        /\ ~includes(readmeContent, <<"m", "o", "z", "i", "l", "l", "a">>)
        /\ includes(toLowerCase(readmeContent), <<"m", "o", "z", "i", "l", "l", "a">>)
        /\ IssuesOf(i) = <<>>

(***************************************************************************)
(* C6: for a multi-license dependency none of whose licenses is compliant, *)
(* when no license is unknown or one is an outright prohibited-violation,  *)
(* the issue reported is the first definite failure in listing order; an   *)
(* unknown license listed with a Prohibited one is reported as the         *)
(* Prohibited failure.                                                     *)
(***************************************************************************)
IsDefiniteFailure(d, l) ==
    KindAlone(d, l) \in {UNDOCUMENTED_CATEGORY_B, CATEGORY_X_VIOLATION}

FirstDefiniteFailure(d) ==
    CHOOSE k \in 1..Len(d.licenses) :
        /\ IsDefiniteFailure(d, d.licenses[k])
        /\ \A j \in 1..(k - 1) : ~IsDefiniteFailure(d, d.licenses[j])

NoneCompliant(d) ==
    \A k \in 1..Len(d.licenses) : ~CompliantAlone(d, d.licenses[k])

SomeUnknown(d) ==
    \E k \in 1..Len(d.licenses) : KindAlone(d, d.licenses[k]) = UNKNOWN_LICENSE

SomeProhibited(d) ==
    \E k \in 1..Len(d.licenses) : KindAlone(d, d.licenses[k]) = CATEGORY_X_VIOLATION

C6_FirstDefiniteFailureReported ==
    Evaluated =>
        \A i \in 1..Len(dependencies) :
            (/\ ListsAtomic(dependencies[i], 2)
             /\ NoneCompliant(dependencies[i])
             /\ ~SomeUnknown(dependencies[i]) \/ SomeProhibited(dependencies[i]))
            => LET d == dependencies[i]
                   first == d.licenses[FirstDefiniteFailure(d)]
               IN  /\ ExactlyOne(IssuesOf(i), KindAlone(d, first))
                   /\ includes(IssuesOf(i)[1].reason.detail, first)

C8_ProhibitedHasNoRemedy ==
    Evaluated =>
        \A i \in 1..Len(dependencies) :
            (/\ ListsAtomic(dependencies[i], 1)
             /\ Len(dependencies[i].licenses) = 1
             /\ getLicenseCategoryNormalized(dependencies[i].licenses[1]) = "X"
             /\ ~OnExceptionPath(dependencies[i], dependencies[i].licenses[1]))
            => ExactlyOne(IssuesOf(i), CATEGORY_X_VIOLATION)

\* the documentation names the dependency, the violation is reported all the same
C8_Witness ==
    /\ Evaluated
    /\ \E i \in 1..Len(dependencies) :
        /\ ListsAtomic(dependencies[i], 1)
        /\ Len(dependencies[i].licenses) = 1
        /\ getLicenseCategoryNormalized(dependencies[i].licenses[1]) = "X"
        /\ ~OnExceptionPath(dependencies[i], dependencies[i].licenses[1])
        /\ includes(toLowerCase(readmeContent), toLowerCase(dependencies[i].name))
        /\ ExactlyOne(IssuesOf(i), CATEGORY_X_VIOLATION)

(***************************************************************************)
(* C9: a dependency whose licenses field is absent, empty or holds only    *)
(* blank strings yields exactly one no-license-info issue.                 *)
(***************************************************************************)
C9_NoLicenseInfo ==
    Evaluated =>
        \A i \in 1..Len(dependencies) :
            (/\ WellFormed(dependencies[i])
             /\ \/ ~dependencies[i].hasLicenses
                \/ \A k \in 1..Len(dependencies[i].licenses) :
                        IsBlank(dependencies[i].licenses[k]))
            => /\ ExactlyOne(IssuesOf(i), NO_LICENSE_INFO)
               /\ ~result.compliant

\* a licenses list holding only a blank string
C9_Witness ==
    /\ Evaluated
    /\ \E i \in 1..Len(dependencies) :
        /\ WellFormed(dependencies[i])
        /\ dependencies[i].hasLicenses
        /\ Len(dependencies[i].licenses) > 0
        /\ \A k \in 1..Len(dependencies[i].licenses) : IsBlank(dependencies[i].licenses[k])
        /\ ExactlyOne(IssuesOf(i), NO_LICENSE_INFO)

(***************************************************************************)
(* C10: each dependency is evaluated independently: at most one issue per  *)
(* input dependency, issues in input order, and the issue of a dependency  *)
(* is the one it gets when evaluated as the only element of the input.     *)
(***************************************************************************)
\* an issue without the position of its dependency in the input
Detached(found) ==
    [k \in 1..Len(found) |-> [reason |-> found[k].reason, issueType |-> found[k].issueType]]

C10_DependenciesIndependent ==
    Evaluated =>
        /\ Len(result.issues) <= Len(dependencies)
        /\ \A j, k \in 1..Len(result.issues) :
                j < k => result.issues[j].dependency < result.issues[k].dependency
        /\ \A i \in 1..Len(dependencies) :
                Detached(IssuesOf(i)) =
                    Detached(dependencyIssues(1, dependencies[i], readmeContent))

\* two dependencies, each with its own issue, of different kinds
C10_Witness ==
    /\ Evaluated
    /\ Len(dependencies) = 2
    /\ Len(result.issues) = 2
    /\ result.issues[1].dependency = 1
    /\ result.issues[2].dependency = 2
    /\ result.issues[1].issueType # result.issues[2].issueType

(***************************************************************************)
(* utils/dependency-orchestrator.ts: deduplicateDependencies.              *)
(***************************************************************************)
\* longest array handed to deduplicateDependencies
MaxRecords == 3

\* dep.licenses?.length is truthy
hasLicenseEntries(dep) == dep.hasLicenses /\ Len(dep.licenses) > 0

\* `${dep.name}:${dep.version}`
dependencyKey(dep) == dep.name \o <<":">> \o dep.version

\* uniqueMap.has(key); the Map is kept as its entries in insertion order
mapHas(map, key) == \E i \in 1..Len(map) : map[i].key = key

\* the position of the entry of a key the Map holds
mapIndex(map, key) == CHOOSE i \in 1..Len(map) : map[i].key = key

\* uniqueMap.set(key, dep): a new key is appended, the value of a key
\* already there is replaced in place
mapSet(map, key, dep) ==
    IF mapHas(map, key)
    THEN [map EXCEPT ![mapIndex(map, key)] = [key |-> key, value |-> dep]]
    ELSE Append(map, [key |-> key, value |-> dep])

\* the test that guards uniqueMap.set
replacesStored(map, dep) ==
    \/ ~mapHas(map, dependencyKey(dep))
    \/ /\ ~hasLicenseEntries(map[mapIndex(map, dependencyKey(dep))].value)
       /\ hasLicenseEntries(dep)

\* one iteration of the for-loop of deduplicateDependencies
visitDependency(map, dep) ==
    IF ~isValidDependency(dep) THEN map
    ELSE IF replacesStored(map, dep) THEN mapSet(map, dependencyKey(dep), dep)
    ELSE map

\* Array.from(uniqueMap.values())
mapValues(map) == [i \in 1..Len(map) |-> map[i].value]

\* the Map after the first n elements of the array have been visited
RECURSIVE uniqueMapAfter(_, _)
uniqueMapAfter(deps, n) ==
    IF n = 0 THEN <<>>
    ELSE visitDependency(uniqueMapAfter(deps, n - 1), deps[n])

deduplicateDependencies(deps) == mapValues(uniqueMapAfter(deps, Len(deps)))

\* the records the parsers extract: valid ones (getDependencies filters with
\* isValidDependency before it deduplicates), with or without licenses
GroupArtifact == <<"g", ":", "a">>
GroupOnly == <<"g">>

ExtractedRecordPool ==
    {Dependency(name, version, hasLicenses, licenses) :
        name \in {GroupArtifact, GroupOnly},
        version \in {<<"1">>, <<"a", ":", "1">>},
        hasLicenses \in {TRUE},
        licenses \in {<<>>, <<<<"M", "I", "T">>>>, <<<<"G", "P", "L", "-", "3", ".", "0">>>>}}
    \cup
    {Dependency(name, version, FALSE, <<>>) :
        name \in {GroupArtifact, GroupOnly},
        version \in {<<"1">>, <<"a", ":", "1">>}}

ExtractedRecordLists(n) == UNION {[1..k -> ExtractedRecordPool] : k \in 0..n}

InitDedup ==
    /\ NoComplianceCall
    /\ NoCall
    /\ world = [kind |-> "deduplicateDependencies"]
    /\ extraction \in {[dependencies |-> deps, errors |-> <<>>, warnings |-> <<>>] :
                        deps \in ExtractedRecordLists(MaxRecords)}
    /\ stage = "dedup"
    /\ uniqueMap = <<>>
    /\ cursor = 1
    /\ criterion = NoCriterion

AtRecord ==
    /\ stage = "dedup"
    /\ cursor <= Len(extraction.dependencies)

VisitNext ==
    /\ uniqueMap' = visitDependency(uniqueMap, extraction.dependencies[cursor])
    /\ cursor' = cursor + 1
    /\ UNCHANGED <<world, stage, extraction, criterion>>
    /\ UNCHANGED complianceVars
    /\ UNCHANGED callVars

\* the key has not been seen: the record is stored
DedupStoreNew ==
    /\ AtRecord
    /\ ~mapHas(uniqueMap, dependencyKey(extraction.dependencies[cursor]))
    /\ VisitNext

\* the stored record has no licenses and this one has: it takes its place
DedupReplace ==
    /\ AtRecord
    /\ mapHas(uniqueMap, dependencyKey(extraction.dependencies[cursor]))
    /\ replacesStored(uniqueMap, extraction.dependencies[cursor])
    /\ VisitNext

\* the stored record is kept
DedupKeep ==
    /\ AtRecord
    /\ ~replacesStored(uniqueMap, extraction.dependencies[cursor])
    /\ VisitNext

\* return Array.from(uniqueMap.values())
DedupReturn ==
    /\ stage = "dedup"
    /\ cursor > Len(extraction.dependencies)
    /\ stage' = "deduplicated"
    /\ UNCHANGED <<world, extraction, uniqueMap, cursor, criterion>>
    /\ UNCHANGED complianceVars
    /\ UNCHANGED callVars

NextDedup ==
    \/ DedupStoreNew
    \/ DedupReplace
    \/ DedupKeep
    \/ DedupReturn

SpecDedup == InitDedup /\ [][NextDedup]_vars

\* the (name, version) pair of a record
PairOf(dep) == <<dep.name, dep.version>>

Deduplicated == stage = "deduplicated"

\* the records returned that carry a given pair
Retained(pair) ==
    {i \in 1..Len(uniqueMap) : PairOf(uniqueMap[i].value) = pair}

(***************************************************************************)
(* C11: the result of deduplicateDependencies holds exactly one record per *)
(* (name, version) pair of the input, and for a pair that some input       *)
(* record carries with a non-empty licenses list the retained record has   *)
(* non-empty licenses, whatever the order of the input.                    *)
(***************************************************************************)
C11_OneRecordPerPair ==
    Deduplicated =>
        /\ \A i \in 1..Len(extraction.dependencies) :
                Cardinality(Retained(PairOf(extraction.dependencies[i]))) = 1
        /\ \A i \in 1..Len(uniqueMap) :
                \E j \in 1..Len(extraction.dependencies) :
                    PairOf(extraction.dependencies[j]) = PairOf(uniqueMap[i].value)
        /\ \A i \in 1..Len(extraction.dependencies) :
                hasLicenseEntries(extraction.dependencies[i]) =>
                    \A k \in Retained(PairOf(extraction.dependencies[i])) :
                        hasLicenseEntries(uniqueMap[k].value)

(***************************************************************************)
(* utils/parsers: the license strings of the build tools' reports.         *)
(***************************************************************************)
\* String.prototype.endsWith
endsWith(s, t) ==
    Len(t) <= Len(s) /\ SubSeq(s, Len(s) - Len(t) + 1, Len(s)) = t

\* String.prototype.indexOf, counted from 0; -1 when t does not occur
indexOf(s, t) ==
    IF includes(s, t)
    THEN CHOOSE i \in 0..(Len(s) - Len(t)) :
            /\ SubSeq(s, i + 1, i + Len(t)) = t
            /\ \A j \in 0..(i - 1) : SubSeq(s, j + 1, j + Len(t)) # t
    ELSE -1

\* String.prototype.split with a non-empty separator
RECURSIVE split(_, _)
RECURSIVE splitFrom(_, _, _)
splitFrom(s, sep, i) ==
    <<SubSeq(s, 1, i)>> \o split(SubSeq(s, i + Len(sep) + 1, Len(s)), sep)

split(s, sep) ==
    IF includes(s, sep) THEN splitFrom(s, sep, indexOf(s, sep)) ELSE <<s>>

\* .map(l => l.trim())
trimEach(parts) == [i \in 1..Len(parts) |-> trim(parts[i])]

\* variant: the name is kept as it was written
orOriginal_asWritten(normalized, l) == l

\* normalized || l
orOriginal(normalized, l) == IF Len(normalized) = 0 THEN l ELSE normalized

\* .map(l => normalizeLicenseName(l) || l)
normalizeEach(parts) ==
    [i \in 1..Len(parts) |-> orOriginal(normalizeLicenseName(parts[i]), parts[i])]

\* Array.prototype.flat, one level
RECURSIVE flatten(_)
flatten(lists) ==
    IF Len(lists) = 0 THEN <<>> ELSE Head(lists) \o flatten(Tail(lists))

\* maven-dependency-parser.ts
splitDualLicenses(license) ==
    IF ~isNonEmptyString(license) THEN <<>>
    ELSE IF includes(license, <<"|">>)
    THEN normalizeEach(SelectSeq(trimEach(split(license, <<"|">>)), isNonEmptyString))
    ELSE <<orOriginal(normalizeLicenseName(license), license)>>

\* npm-dependency-parser.ts: license.trim() without its surrounding parentheses
stripParentheses(t) ==
    IF startsWith(t, <<"(">>) /\ endsWith(t, <<")">>)
    THEN (IF Len(t) = 1 THEN t ELSE trim(SubSeq(t, 2, Len(t) - 1)))
    ELSE t

RECURSIVE splitSpdxLicenses(_)
RECURSIVE splitCleaned(_)
RECURSIVE splitSpdxEach(_)
\* .flatMap(l => splitSpdxLicenses(l))
splitSpdxEach(parts) ==
    flatten([i \in 1..Len(parts) |-> splitSpdxLicenses(parts[i])])

splitCleaned(cleaned) ==
    IF includes(cleaned, <<" ", "O", "R", " ">>)
    THEN normalizeEach(splitSpdxEach(
            SelectSeq(trimEach(split(cleaned, <<" ", "O", "R", " ">>)), isNonEmptyString)))
    ELSE IF includes(cleaned, <<" ", "A", "N", "D", " ">>)
    THEN normalizeEach(splitSpdxEach(
            SelectSeq(trimEach(split(cleaned, <<" ", "A", "N", "D", " ">>)), isNonEmptyString)))
    ELSE <<orOriginal(normalizeLicenseName(cleaned), cleaned)>>

splitSpdxLicenses(license) ==
    IF ~isNonEmptyString(license) THEN <<>>
    ELSE splitCleaned(stripParentheses(trim(license)))

\* gradle-dependency-parser.ts: the names of the report's license entries,
\* .map(l => l?.name || l?.license).filter(isNonEmptyString)
gradleLicenseNames(entries) == SelectSeq(entries, isNonEmptyString)

(***************************************************************************)
(* The outcome of an external command: the promise of execAsync resolves,  *)
(* or it rejects with the Error that child_process.exec builds.            *)
(***************************************************************************)
\* exec killed the child when its timeout ran out
TimeoutError ==
    [killed |-> TRUE, signal |-> "SIGTERM", message |-> <<"C", "o", "m", "m", "a", "n", "d", " ", "f", "a", "i", "l", "e", "d", ":", " ", "b", "u", "i", "l", "d">>]

\* exec killed the child when its output outgrew maxBuffer
MaxBufferError ==
    [killed |-> TRUE, signal |-> "SIGTERM", message |-> <<"s", "t", "d", "o", "u", "t", " ", "m", "a", "x", "B", "u", "f", "f", "e", "r", " ", "l", "e", "n", "g", "t", "h", " ", "e", "x", "c", "e", "e", "d", "e", "d">>]

\* the command ended with a non-zero exit code
CrashError ==
    [killed |-> FALSE, signal |-> "null", message |-> <<"C", "o", "m", "m", "a", "n", "d", " ", "f", "a", "i", "l", "e", "d", ":", " ", "e", "x", "i", "t", " ", "1">>]

NoError == [killed |-> FALSE, signal |-> "null", message |-> <<>>]

Resolved == [ok |-> TRUE, error |-> NoError]

Rejected(error) == [ok |-> FALSE, error |-> error]

\* maven-dependency-parser.ts
isTimeoutError(error) ==
    \/ error.killed = TRUE
    \/ error.signal = "SIGTERM"
    \/ (Len(error.message) > 0 /\ includes(toLowerCase(error.message), <<"t", "i", "m", "e", "o", "u", "t">>))

isMaxBufferError(error) ==
    Len(error.message) > 0 /\ includes(toLowerCase(error.message), <<"m", "a", "x", "b", "u", "f", "f", "e", "r">>)

\* a DependencyExtractionError of the errors list; its message is kept as
\* its fixed wording and the text interpolated into it
ExtractionError(source, text, detail) ==
    [source |-> source, message |-> Reason(text, detail)]

\* a DependencyExtractionError of the warnings list; its message is kept in
\* full, since the S003 criterion searches it
ExtractionWarning(source, message) == [source |-> source, message |-> message]

ExtractionResult(deps, errors, warnings) ==
    [dependencies |-> deps, errors |-> errors, warnings |-> warnings]

\* a record without license information: licenses is undefined
Unlicensed(name, version) == Dependency(name, version, FALSE, <<>>)

(***************************************************************************)
(* utils/parsers/maven-dependency-parser.ts                                *)
(***************************************************************************)
\* a line of THIRD-PARTY.txt, "(License Name) Artifact (group:artifact:version - URL)",
\* kept as the text between its first parentheses and its coordinates
ThirdPartyLine(license, groupId, artifactId, version) ==
    [license |-> license, groupId |-> groupId, artifactId |-> artifactId,
     version |-> version]

\* the line yields a dependency: the license name ends at the first ')' of
\* the line, so a license text that itself holds a ')' moves the place where
\* the coordinates are looked for and the line is given up
thirdPartyLineParses(line) ==
    /\ ~includes(line.license, <<")">>)
    /\ isNonEmptyString(trim(line.license))
    /\ isNonEmptyString(line.groupId)
    /\ isNonEmptyString(line.artifactId)
    /\ isNonEmptyString(line.version)

parseMavenThirdPartyLine(line) ==
    Dependency(trim(line.groupId) \o <<":">> \o trim(line.artifactId),
               trim(line.version), TRUE,
               splitDualLicenses(trim(line.license)))

parsedThirdPartyLines(lines) ==
    [i \in 1..Len(lines) |-> parseMavenThirdPartyLine(lines[i])]

parseMavenThirdPartyFile(lines) ==
    SelectSeq(parsedThirdPartyLines(SelectSeq(lines, thirdPartyLineParses)),
              isValidDependency)

\* a line "[INFO]    group:artifact:type:version:scope" of mvn dependency:list
ListedDependency(groupId, artifactId, version) ==
    [groupId |-> groupId, artifactId |-> artifactId, version |-> version]

listedDependencyParses(entry) ==
    /\ isNonEmptyString(entry.groupId)
    /\ isNonEmptyString(entry.artifactId)
    /\ isNonEmptyString(entry.version)

unlicensedEach(entries) ==
    [i \in 1..Len(entries) |->
        Unlicensed(trim(entries[i].groupId) \o <<":">> \o trim(entries[i].artifactId),
                   trim(entries[i].version))]

parseMavenDependencyList(entries) ==
    SelectSeq(unlicensedEach(SelectSeq(entries, listedDependencyParses)),
              isValidDependency)

MavenNoReportMessage ==
    <<"M", "a", "v", "e", "n", " ", "l", "i", "c", "e", "n", "s", "e", " ", "p", "l", "u", "g", "i", "n", " ", "d", "i", "d", " ", "n", "o", "t", " ", "g", "e", "n", "e", "r", "a", "t", "e", " ", "T", "H", "I", "R", "D", "-", "P", "A", "R", "T", "Y", ".", "t", "x", "t", " ", "f", "i", "l", "e", ".", " ", "T", "h", "i", "s", " ", "t", "y", "p", "i", "c", "a", "l", "l", "y", " ", "m", "e", "a", "n", "s", " ", "t", "h", "e", " ", "p", "r", "o", "j", "e", "c", "t", " ", "h", "a", "s", " ", "n", "o", " ", "t", "h", "i", "r", "d", "-", "p", "a", "r", "t", "y", " ", "d", "e", "p", "e", "n", "d", "e", "n", "c", "i", "e", "s", ".", " ", "E", "x", "p", "e", "c", "t", "e", "d", " ", "l", "o", "c", "a", "t", "i", "o", "n", ":", " ", "t", "a", "r", "g", "e", "t", "/", "l", "i", "c", "e", "n", "s", "e", "s", "/", "T", "H", "I", "R", "D", "-", "P", "A", "R", "T", "Y", ".", "t", "x", "t">>

\* the catch block of getMavenDependencies
mavenFailure(error) ==
    IF isMaxBufferError(error)
    THEN ExtractionResult(<<>>,
            <<ExtractionError("maven-parser",
                "Maven build output exceeded buffer size (50MB)", <<>>)>>, <<>>)
    ELSE IF isTimeoutError(error)
    THEN ExtractionResult(<<>>,
            <<ExtractionError("maven-parser",
                "Maven build timed out after 5 minutes", <<>>)>>, <<>>)
    ELSE ExtractionResult(<<>>,
            <<ExtractionError("maven-parser",
                "Failed to extract Maven dependencies", error.message)>>, <<>>)

\* getMavenDependencies in a repository whose files and command outcomes are w
getMavenDependencies(repoPath, w) ==
    IF ~w.pathValid
    THEN ExtractionResult(<<>>,
            <<ExtractionError("maven-parser", "Invalid repository path", repoPath)>>,
            <<>>)
    ELSE IF ~w.build.ok THEN mavenFailure(w.build.error)
    ELSE IF w.report.present
    THEN ExtractionResult(parseMavenThirdPartyFile(w.report.lines), <<>>, <<>>)
    ELSE ExtractionResult(<<>>, <<>>,
            <<ExtractionWarning("maven-parser", MavenNoReportMessage)>>)

(***************************************************************************)
(* utils/parsers/gradle-dependency-parser.ts                               *)
(***************************************************************************)
\* an element of the dependencies array of the license report
ReportedModule(moduleName, version, licenseNames) ==
    [moduleName |-> moduleName, version |-> version, licenses |-> licenseNames]

reportedModuleParses(dep) ==
    isNonEmptyString(dep.moduleName) /\ isNonEmptyString(dep.version)

parseGradleLicenseReportDependency(dep) ==
    Dependency(trim(dep.moduleName), trim(dep.version), TRUE,
               gradleLicenseNames(dep.licenses))

parsedModules(deps) ==
    [i \in 1..Len(deps) |-> parseGradleLicenseReportDependency(deps[i])]

\* JSON.parse throws on a malformed report and the function returns []
parseGradleLicenseReport(report) ==
    IF report.malformed THEN <<>>
    ELSE SelectSeq(parsedModules(SelectSeq(report.modules, reportedModuleParses)),
                   isValidDependency)

\* a line "+--- group:artifact:version" of the dependencies task
parseGradleDependencies(entries) ==
    SelectSeq(unlicensedEach(SelectSeq(entries, listedDependencyParses)),
              isValidDependency)

GradleFallbackMessage ==
    <<"G", "r", "a", "d", "l", "e", " ", "l", "i", "c", "e", "n", "s", "e", " ", "p", "l", "u", "g", "i", "n", " ", "d", "i", "d", " ", "n", "o", "t", " ", "g", "e", "n", "e", "r", "a", "t", "e", " ", "l", "i", "c", "e", "n", "s", "e", " ", "r", "e", "p", "o", "r", "t", ",", " ", "f", "a", "l", "l", "i", "n", "g", " ", "b", "a", "c", "k", " ", "t", "o", " ", "d", "e", "p", "e", "n", "d", "e", "n", "c", "i", "e", "s", " ", "t", "a", "s", "k">>

gradleFailure(warnings) ==
    ExtractionResult(<<>>,
        <<ExtractionError("gradle-parser", "Failed to extract Gradle dependencies", <<>>)>>,
        warnings)

\* getGradleDependencies in a repository whose files and command outcomes are w
getGradleDependencies(repoPath, w) ==
    IF ~w.pathValid
    THEN ExtractionResult(<<>>,
            <<ExtractionError("gradle-parser", "Invalid repository path", repoPath)>>,
            <<>>)
    ELSE IF ~w.build.ok THEN gradleFailure(<<>>)
    ELSE IF w.report.present
    THEN ExtractionResult(parseGradleLicenseReport(w.report), <<>>, <<>>)
    ELSE IF ~w.listing.ok
    THEN gradleFailure(<<ExtractionWarning("gradle-parser", GradleFallbackMessage)>>)
    ELSE ExtractionResult(parseGradleDependencies(w.listed), <<>>,
            <<ExtractionWarning("gradle-parser", GradleFallbackMessage)>>)

(***************************************************************************)
(* utils/parsers/npm-dependency-parser.ts                                  *)
(***************************************************************************)
\* an entry "name@version": {licenses: ...} of the license-checker output;
\* its licenses field is absent, a string (one value) or an array of strings
CheckedPackage(name, version, licenseField) ==
    [name |-> name, version |-> version, licenseField |-> licenseField]

NoLicenseField == [kind |-> "absent", values |-> <<>>]
LicenseString(value) == [kind |-> "string", values |-> <<value>>]
LicenseArray(values) == [kind |-> "array", values |-> values]

checkedPackageParses(package) ==
    isNonEmptyString(package.name) /\ isNonEmptyString(package.version)

\* a license field that is the empty string is falsy and read as absent
licensesOfField(field) ==
    IF field.kind = "string" /\ Len(field.values[1]) > 0
    THEN splitSpdxLicenses(field.values[1])
    ELSE IF field.kind = "array" THEN splitSpdxEach(field.values)
    ELSE <<>>

\* licenses: licenses.length > 0 ? licenses : undefined
withLicenses(name, version, licenses) ==
    IF Len(licenses) > 0 THEN Dependency(name, version, TRUE, licenses)
    ELSE Unlicensed(name, version)

parsedPackages(packages) ==
    [i \in 1..Len(packages) |->
        withLicenses(trim(packages[i].name), trim(packages[i].version),
                     licensesOfField(packages[i].licenseField))]

\* JSON.parse throws on malformed output and the function returns []
parseLicenseCheckerOutput(output) ==
    IF output.malformed THEN <<>>
    ELSE SelectSeq(parsedPackages(SelectSeq(output.packages, checkedPackageParses)),
                   isValidDependency)

\* String(version).replace(/^[\^~>=<]/, '')
removeVersionPrefix(version) ==
    IF Len(version) > 0 /\ version[1] \in {"^", "~", ">", "=", "<"}
    THEN Tail(version) ELSE version

\* an entry of the dependencies object of package.json
DeclaredDependency(name, version) == [name |-> name, version |-> version]

isDeclared(entry) ==
    isNonEmptyString(entry.name) /\ isNonEmptyString(entry.version)

declaredEach(entries) ==
    [i \in 1..Len(entries) |->
        Unlicensed(entries[i].name, removeVersionPrefix(entries[i].version))]

\* a missing file and a malformed file both give []
extractFromPackageJson(packageJson) ==
    IF ~packageJson.exists \/ packageJson.malformed THEN <<>>
    ELSE declaredEach(SelectSeq(packageJson.dependencies, isDeclared))

NpmAttemptMessage(errorMessage) ==
    <<"L", "i", "c", "e", "n", "s", "e", "-", "c", "h", "e", "c", "k", "e", "r", " ", "a", "p", "p", "r", "o", "a", "c", "h", " ", "f", "a", "i", "l", "e", "d", ",", " ", "a", "t", "t", "e", "m", "p", "t", "i", "n", "g", " ", "f", "a", "l", "l", "b", "a", "c", "k", " ", "t", "o", " ", "p", "a", "c", "k", "a", "g", "e", ".", "j", "s", "o", "n", ":", " ">>
    \o errorMessage

NpmFallbackMessage ==
    <<"U", "s", "i", "n", "g", " ", "f", "a", "l", "l", "b", "a", "c", "k", ":", " ", "e", "x", "t", "r", "a", "c", "t", "e", "d", " ", "d", "i", "r", "e", "c", "t", " ", "d", "e", "p", "e", "n", "d", "e", "n", "c", "i", "e", "s", " ", "f", "r", "o", "m", " ", "p", "a", "c", "k", "a", "g", "e", ".", "j", "s", "o", "n", " ", "w", "i", "t", "h", "o", "u", "t", " ", "l", "i", "c", "e", "n", "s", "e", " ", "i", "n", "f", "o", "r", "m", "a", "t", "i", "o", "n", ".", " ", "L", "i", "c", "e", "n", "s", "e", " ", "c", "o", "m", "p", "l", "i", "a", "n", "c", "e", " ", "w", "i", "l", "l", " ", "r", "e", "q", "u", "i", "r", "e", " ", "m", "a", "n", "u", "a", "l", " ", "r", "e", "v", "i", "e", "w", ".">>

\* what the catch block returns once the fallback has been tried
npmAfterFallback(error, fallback) ==
    IF Len(fallback) > 0
    THEN ExtractionResult(fallback, <<>>,
            <<ExtractionWarning("npm-parser", NpmAttemptMessage(error.message)),
              ExtractionWarning("npm-parser", NpmFallbackMessage)>>)
    ELSE ExtractionResult(<<>>,
            <<ExtractionError("npm-parser", "Failed to extract npm dependencies",
                              error.message)>>,
            <<ExtractionWarning("npm-parser", NpmAttemptMessage(error.message))>>)

\* variant: the fallback's dependencies are returned without any warning
npmFailure_silent(error, packageJson) ==
    ExtractionResult(extractFromPackageJson(packageJson), <<>>, <<>>)

\* the catch block of getNpmDependencies
npmFailure(error, packageJson) ==
    npmAfterFallback(error, extractFromPackageJson(packageJson))

\* getNpmDependencies in a repository whose files and command outcomes are w
getNpmDependencies(repoPath, w) ==
    IF ~w.pathValid
    THEN ExtractionResult(<<>>,
            <<ExtractionError("npm-parser", "Invalid repository path", repoPath)>>,
            <<>>)
    ELSE IF ~w.install.ok THEN npmFailure(w.install.error, w.packageJson)
    ELSE IF ~w.audit.ok THEN npmFailure(w.audit.error, w.packageJson)
    ELSE ExtractionResult(parseLicenseCheckerOutput(w.output), <<>>, <<>>)

(***************************************************************************)
(* The repositories explored: what their files hold and how the external   *)
(* commands end.                                                           *)
(***************************************************************************)
\* most lines of a report, entries of a listing or of package.json
MaxLines == 1

RepoPath == <<"/", "r">>

\* the license texts the build tools report
ReportedLicensePool ==
    { <<"m", "i", "t">>, <<"G", "P", "L", "-", "3", ".", "0">>, <<"M", "I", "T", "|", "G", "P", "L", "-", "3", ".", "0">>, <<"A", " ", "O", "R", " ", "B">>, <<"A", " ", "A", "N", "D", " ", "B">>,
      <<"(", "m", "i", "t", ")">>, <<"A", " ", "W", "I", "T", "H", " ", "B">>, <<" ">> }

\* the license texts of the repositories the S003 criterion is run on
EvaluatedLicensePool == { <<"m", "i", "t">>, <<"G", "P", "L", "-", "3", ".", "0">>, <<"A", " ", "O", "R", " ", "B">> }

CommandErrors == {TimeoutError, MaxBufferError, CrashError}

CommandFailures == {Rejected(e) : e \in CommandErrors}

ListsOf(pool, n) == UNION {[1..k -> pool] : k \in 0..n}

\* the last line has coordinates without a version
ThirdPartyLines(licenses) ==
    {ThirdPartyLine(l, <<"a">>, <<"d", "e", "p">>, <<"1">>) : l \in licenses}
    \cup {ThirdPartyLine(<<"m", "i", "t">>, <<"a">>, <<"d", "e", "p">>, <<" ">>)}

ListedDependencies == {ListedDependency(<<"a">>, <<"d", "e", "p">>, <<"1">>)}

AbsentReport == [present |-> FALSE, malformed |-> FALSE, lines |-> <<>>, modules |-> <<>>]

MavenReport(lines) ==
    [present |-> TRUE, malformed |-> FALSE, lines |-> lines, modules |-> <<>>]

MavenWorld(pathValid, build, report, listed) ==
    [pathValid |-> pathValid, build |-> build, report |-> report, listed |-> listed]

\* listed is what mvn dependency:list would print in that repository
MavenWorlds(licenses, n) ==
    {MavenWorld(FALSE, Resolved, AbsentReport, <<>>)}
    \cup {MavenWorld(TRUE, failure, AbsentReport, <<>>) : failure \in CommandFailures}
    \cup {MavenWorld(TRUE, Resolved, MavenReport(lines), <<>>) :
            lines \in ListsOf(ThirdPartyLines(licenses), n)}
    \cup {MavenWorld(TRUE, Resolved, AbsentReport, listed) :
            listed \in ListsOf(ListedDependencies, n)}

\* the last two modules lack a version and a name
ReportedModules(licenses) ==
    {ReportedModule(<<"a", ":", "d", "e", "p">>, <<"1">>, names) : names \in ListsOf(licenses, 1)}
    \cup {ReportedModule(<<"a", ":", "d", "e", "p">>, <<" ">>, <<<<"m", "i", "t">>>>),
          ReportedModule(<<" ">>, <<"1">>, <<<<"m", "i", "t">>>>)}

GradleReport(modules) ==
    [present |-> TRUE, malformed |-> FALSE, lines |-> <<>>, modules |-> modules]

MalformedReport ==
    [present |-> TRUE, malformed |-> TRUE, lines |-> <<>>, modules |-> <<>>]

GradleWorld(pathValid, build, report, listing, listed) ==
    [pathValid |-> pathValid, build |-> build, report |-> report,
     listing |-> listing, listed |-> listed]

GradleWorlds(licenses, n) ==
    {GradleWorld(FALSE, Resolved, AbsentReport, Resolved, <<>>)}
    \cup {GradleWorld(TRUE, failure, AbsentReport, Resolved, <<>>) :
            failure \in CommandFailures}
    \cup {GradleWorld(TRUE, Resolved, MalformedReport, Resolved, <<>>)}
    \cup {GradleWorld(TRUE, Resolved, GradleReport(modules), Resolved, <<>>) :
            modules \in ListsOf(ReportedModules(licenses), n)}
    \cup {GradleWorld(TRUE, Resolved, AbsentReport, failure, <<>>) :
            failure \in CommandFailures}
    \cup {GradleWorld(TRUE, Resolved, AbsentReport, Resolved, listed) :
            listed \in ListsOf(ListedDependencies, n)}

CheckedPackages(licenses) ==
    {CheckedPackage(<<"d", "e", "p">>, <<"1">>, NoLicenseField)}
    \cup {CheckedPackage(<<"d", "e", "p">>, <<"1">>, LicenseString(l)) : l \in licenses}
    \cup {CheckedPackage(<<"d", "e", "p">>, <<"1">>, LicenseArray(<<l>>)) : l \in licenses}

CheckerOutput(packages) == [malformed |-> FALSE, packages |-> packages]

MalformedOutput == [malformed |-> TRUE, packages |-> <<>>]

DeclaredDependencies ==
    { DeclaredDependency(<<"d", "e", "p">>, <<"^", "1">>),
      DeclaredDependency(<<"l", "i", "b">>, <<"1">>),
      DeclaredDependency(<<"x">>, <<>>) }

MissingPackageJson == [exists |-> FALSE, malformed |-> FALSE, dependencies |-> <<>>]

MalformedPackageJson == [exists |-> TRUE, malformed |-> TRUE, dependencies |-> <<>>]

PackageJson(declared) == [exists |-> TRUE, malformed |-> FALSE, dependencies |-> declared]

PackageJsons(n) ==
    {MissingPackageJson, MalformedPackageJson}
    \cup {PackageJson(declared) : declared \in ListsOf(DeclaredDependencies, n)}

NpmWorld(pathValid, install, audit, output, packageJson) ==
    [pathValid |-> pathValid, install |-> install, audit |-> audit,
     output |-> output, packageJson |-> packageJson]

\* a fault while .npmrc is written counts with the failures of the install
NpmWorlds(licenses, n) ==
    {NpmWorld(FALSE, Resolved, Resolved, MalformedOutput, MissingPackageJson)}
    \cup {NpmWorld(TRUE, failure, Resolved, MalformedOutput, packageJson) :
            failure \in CommandFailures, packageJson \in PackageJsons(n)}
    \cup {NpmWorld(TRUE, Resolved, failure, MalformedOutput, packageJson) :
            failure \in CommandFailures, packageJson \in PackageJsons(n)}
    \cup {NpmWorld(TRUE, Resolved, Resolved, MalformedOutput, PackageJson(<<>>))}
    \cup {NpmWorld(TRUE, Resolved, Resolved, CheckerOutput(packages), PackageJson(<<>>)) :
            packages \in ListsOf(CheckedPackages(licenses), n)}

(***************************************************************************)
(* getDependencies: detection, one extraction per detected build tool,     *)
(* aggregation.  Every await of the function is a step.                    *)
(***************************************************************************)
OrchestratorError(text, detail) ==
    ExtractionError("dependency-orchestrator", text, detail)

PathMissingMessage(repoPath) ==
    <<"R", "e", "p", "o", "s", "i", "t", "o", "r", "y", " ", "p", "a", "t", "h", " ", "d", "o", "e", "s", " ", "n", "o", "t", " ", "e", "x", "i", "s", "t", ":", " ">> \o repoPath

NoBuildToolsMessage ==
    <<"N", "o", " ", "s", "u", "p", "p", "o", "r", "t", "e", "d", " ", "b", "u", "i", "l", "d", " ", "t", "o", "o", "l", "s", " ", "f", "o", "u", "n", "d", " ", "(", "M", "a", "v", "e", "n", ",", " ", "G", "r", "a", "d", "l", "e", ")", ".", " ", "F", "u", "t", "u", "r", "e", " ", "s", "u", "p", "p", "o", "r", "t", ":", " ", "n", "p", "m", ",", " ", "G", "o", ",", " ", "R", "u", "s", "t", ".">>

\* variant: a parser that reports an error ends the extraction with that error
pushResult_abortOnError(collected, parsed) ==
    IF Len(parsed.errors) > 0
    THEN ExtractionResult(<<>>, parsed.errors, <<>>)
    ELSE ExtractionResult(
            collected.dependencies \o SelectSeq(parsed.dependencies, isValidDependency),
            collected.errors \o parsed.errors,
            collected.warnings \o parsed.warnings)

\* dependencies.push(...r.dependencies.filter(isValidDependency));
\* errors.push(...r.errors); warnings.push(...r.warnings)
pushResult(collected, parsed) ==
    ExtractionResult(
        collected.dependencies \o SelectSeq(parsed.dependencies, isValidDependency),
        collected.errors \o parsed.errors,
        collected.warnings \o parsed.warnings)

\* variant: the catch block returns the dependencies collected so far
caughtFault_keepsDependencies(collected, repoPath) ==
    ExtractionResult(collected.dependencies,
        collected.errors
            \o <<OrchestratorError("Error extracting dependencies from", repoPath)>>,
        collected.warnings)

\* the catch block of getDependencies
caughtFault(collected, repoPath) ==
    ExtractionResult(<<>>,
        collected.errors
            \o <<OrchestratorError("Error extracting dependencies from", repoPath)>>,
        collected.warnings)

noBuildTools(collected, hasMaven, hasGradle) ==
    /\ Len(collected.dependencies) = 0
    /\ Len(collected.errors) = 0
    /\ ~hasMaven
    /\ ~hasGradle

\* the end of the try block: the warning for a repository without build
\* tool, then the deduplication
aggregated(collected, hasMaven, hasGradle) ==
    ExtractionResult(
        deduplicateDependencies(collected.dependencies),
        collected.errors,
        IF noBuildTools(collected, hasMaven, hasGradle)
        THEN collected.warnings
                \o <<ExtractionWarning("dependency-orchestrator", NoBuildToolsMessage)>>
        ELSE collected.warnings)

(***************************************************************************)
(* utils/license-compliance-evaluator.ts                                   *)
(***************************************************************************)
Criterion(status, evidence, details) ==
    [status |-> status, evidence |-> evidence, details |-> details]

RECURSIVE issuesThrough(_, _, _)
\* the issues array after the first n iterations of checkLicenseCompliance
issuesThrough(deps, readme, n) ==
    IF n = 0 THEN <<>>
    ELSE issuesThrough(deps, readme, n - 1) \o dependencyIssues(n, deps[n], readme)

complianceOf(found) ==
    [compliant |-> (Len(found) = 0), issues |-> found, returned |-> TRUE]

\* checkLicenseCompliance on an array and a string
checkLicenseCompliance(deps, readme) ==
    complianceOf(issuesThrough(deps, readme, Len(deps)))

mentionsFallback(message) ==
    \/ includes(message, <<"t", "r", "a", "n", "s", "i", "t", "i", "v", "e", " ", "d", "e", "p", "e", "n", "d", "e", "n", "c", "i", "e", "s", " ", "u", "n", "a", "v", "a", "i", "l", "a", "b", "l", "e">>)
    \/ includes(message, <<"f", "a", "l", "l", "b", "a", "c", "k">>)
    \/ includes(message, <<"F", "a", "l", "l", "b", "a", "c", "k", " ", "m", "o", "d", "e">>)

hasFallbackWarning(warnings) ==
    \E i \in 1..Len(warnings) : mentionsFallback(warnings[i].message)

hasCategoryXViolation(complianceResult) ==
    \E i \in 1..Len(complianceResult.issues) :
        complianceResult.issues[i].issueType = CATEGORY_X_VIOLATION

allIssuesAreManualReview(complianceResult) ==
    \A i \in 1..Len(complianceResult.issues) :
        complianceResult.issues[i].issueType
            \in {UNKNOWN_LICENSE, UNDOCUMENTED_CATEGORY_B, NO_LICENSE_INFO}

\* variant: issues that call for a review are looked at before violations
determineComplianceStatus_reviewFirst(complianceResult, fallback) ==
    IF complianceResult.compliant
    THEN (IF fallback
          THEN Criterion(MANUAL, "summary", "passed for analyzed dependencies, MANUAL REVIEW REQUIRED")
          ELSE Criterion(PASS, "summary", "All third-party dependencies comply"))
    ELSE IF \E i \in 1..Len(complianceResult.issues) :
                complianceResult.issues[i].issueType
                    \in {UNKNOWN_LICENSE, UNDOCUMENTED_CATEGORY_B, NO_LICENSE_INFO}
    THEN Criterion(MANUAL, "summary", "issues require manual review")
    ELSE IF hasCategoryXViolation(complianceResult)
    THEN Criterion(FAIL, "summary", "issues found, please resolve")
    ELSE Criterion(MANUAL, "summary", "issues found, please review")

determineComplianceStatus(complianceResult, fallback) ==
    IF complianceResult.compliant
    THEN (IF fallback
          THEN Criterion(MANUAL, "summary", "passed for analyzed dependencies, MANUAL REVIEW REQUIRED")
          ELSE Criterion(PASS, "summary", "All third-party dependencies comply"))
    ELSE IF hasCategoryXViolation(complianceResult)
    THEN Criterion(FAIL, "summary", "issues found, please resolve")
    ELSE IF allIssuesAreManualReview(complianceResult)
    THEN Criterion(MANUAL, "summary", "issues require manual review")
    ELSE Criterion(MANUAL, "summary", "issues found, please review")

\* what the catch block of evaluateS003ThirdPartyLicenses returns
analysisFailed ==
    Criterion(MANUAL, "Error occurred during dependency analysis",
              "Failed to analyze third-party license compliance")

\* variant: the errors of the extraction are not looked at
evaluateExtracted_errorsIgnored(extractionResult, readme) ==
    IF Len(extractionResult.dependencies) = 0
    THEN Criterion(MANUAL, "No third-party dependencies found",
                   "Repository appears to have no third-party dependencies")
    ELSE IF readme.fault THEN analysisFailed
    ELSE determineComplianceStatus(
            checkLicenseCompliance(extractionResult.dependencies, readme.content),
            hasFallbackWarning(extractionResult.warnings))

\* evaluateS003ThirdPartyLicenses once getDependencies has returned; readme
\* is what findReadmeContent finds, or the fault it raises
evaluateExtracted(extractionResult, readme) ==
    IF Len(extractionResult.errors) > 0
    THEN Criterion(MANUAL, "Failed to extract dependencies due to error(s)",
                   "Dependency extraction errors")
    ELSE IF Len(extractionResult.dependencies) = 0
    THEN Criterion(MANUAL, "No third-party dependencies found",
                   "Repository appears to have no third-party dependencies")
    ELSE IF readme.fault THEN analysisFailed
    ELSE determineComplianceStatus(
            checkLicenseCompliance(extractionResult.dependencies, readme.content),
            hasFallbackWarning(extractionResult.warnings))

(***************************************************************************)
(* The S003 criterion on a repository, and determineComplianceStatus       *)
(* called on its own.                                                      *)
(***************************************************************************)
\* most issues of a compliance result handed to determineComplianceStatus
MaxIssues == 2

Readme(fault, content) == [fault |-> fault, content |-> content]

\* README.md is absent or holds content; reading it can raise a fault
ReadmeFiles ==
    { Readme(TRUE, <<>>), Readme(FALSE, <<>>), Readme(FALSE, <<"M", "o", "z", "i", "l", "l", "a", " ", "o", "k">>) }

S003LicensePool == EvaluatedLicensePool \cup { <<"M", "P", "L", "-", "2", ".", "0">> }

UndetectedMaven == MavenWorld(FALSE, Resolved, AbsentReport, <<>>)

UndetectedGradle == GradleWorld(FALSE, Resolved, AbsentReport, Resolved, <<>>)

Repository(repoPath, exists, hasMaven, hasGradle, maven, gradle, readme) ==
    [kind |-> "getDependencies", repoPath |-> repoPath, exists |-> exists,
     hasMaven |-> hasMaven, hasGradle |-> hasGradle,
     maven |-> maven, gradle |-> gradle, readme |-> readme]

DetectedMavenWorlds(hasMaven, n) ==
    IF hasMaven THEN MavenWorlds(S003LicensePool, n) ELSE {UndetectedMaven}

DetectedGradleWorlds(hasGradle, n) ==
    IF hasGradle THEN GradleWorlds(S003LicensePool, n) ELSE {UndetectedGradle}

DetectedRepositories(hasMaven, hasGradle, n) ==
    {Repository(RepoPath, TRUE, hasMaven, hasGradle, maven, gradle, readme) :
        maven \in DetectedMavenWorlds(hasMaven, n),
        gradle \in DetectedGradleWorlds(hasGradle, n),
        readme \in ReadmeFiles}

Repositories(n) ==
    {Repository(repoPath, FALSE, FALSE, FALSE, UndetectedMaven, UndetectedGradle,
                Readme(FALSE, <<>>)) : repoPath \in {<<>>, <<" ">>, RepoPath}}
    \cup UNION {DetectedRepositories(hasMaven, hasGradle, n) :
                    hasMaven \in BOOLEAN, hasGradle \in BOOLEAN}

IssueTypes ==
    {NO_LICENSE_INFO, UNKNOWN_LICENSE, UNDOCUMENTED_CATEGORY_B,
     CATEGORY_X_VIOLATION, PARSER_ERROR}

IssuesOfTypes(types) ==
    [i \in 1..Len(types) |-> ComplianceIssue(i, Reason("reason", <<>>), types[i])]

\* the compliance results a caller can hand over; compliant is the caller's
ComplianceResults(n) ==
    {[compliant |-> compliant, issues |-> IssuesOfTypes(types), returned |-> TRUE] :
        compliant \in BOOLEAN, types \in ListsOf(IssueTypes, n)}

InitGetDependencies ==
    /\ NoComplianceCall
    /\ NoCall
    /\ world \in Repositories(MaxLines)
    /\ stage = "getDependencies"
    /\ extraction = EmptyExtraction
    /\ uniqueMap = <<>>
    /\ cursor = 0
    /\ criterion = NoCriterion

InitDetermine ==
    /\ dependencies = <<>>
    /\ depsIsArray = TRUE
    /\ readmeContent = <<>>
    /\ readmeIsString = TRUE
    /\ pc = "idle"
    /\ idx = 1
    /\ issues = <<>>
    /\ result \in ComplianceResults(MaxIssues)
    /\ NoCall
    /\ world \in {[kind |-> "determineComplianceStatus", hasFallbackWarning |-> fallback] :
                    fallback \in BOOLEAN}
    /\ stage = "determineComplianceStatus"
    /\ extraction = EmptyExtraction
    /\ uniqueMap = <<>>
    /\ cursor = 0
    /\ criterion = NoCriterion

InitS003 == InitGetDependencies \/ InitDetermine

\* a step of getDependencies: the collected result becomes collected
GetDependenciesStep(next, collected) ==
    /\ stage' = next
    /\ extraction' = collected
    /\ UNCHANGED <<world, uniqueMap, cursor, criterion>>
    /\ UNCHANGED complianceVars
    /\ UNCHANGED callVars

\* if (!isNonEmptyString(repoPath)), before the try block
RejectRepoPath ==
    /\ stage = "getDependencies"
    /\ ~isNonEmptyString(world.repoPath)
    /\ GetDependenciesStep("extracted",
            ExtractionResult(<<>>,
                <<OrchestratorError("Repository path must be a non-empty string", <<>>)>>,
                <<>>))

EnterTry ==
    /\ stage = "getDependencies"
    /\ isNonEmptyString(world.repoPath)
    /\ GetDependenciesStep("exists", extraction)

\* if (!fs.existsSync(repoPath))
PathMissing ==
    /\ stage = "exists"
    /\ ~world.exists
    /\ GetDependenciesStep("extracted",
            ExtractionResult(<<>>, extraction.errors,
                extraction.warnings
                    \o <<ExtractionWarning("dependency-orchestrator",
                                           PathMissingMessage(world.repoPath))>>))

\* hasMavenProject and hasGradleProject have answered
Detected ==
    /\ stage = "exists"
    /\ world.exists
    /\ GetDependenciesStep("maven", extraction)

ExtractMaven ==
    /\ stage = "maven"
    /\ world.hasMaven
    /\ GetDependenciesStep("gradle",
            pushResult(extraction, getMavenDependencies(world.repoPath, world.maven)))

SkipMaven ==
    /\ stage = "maven"
    /\ ~world.hasMaven
    /\ GetDependenciesStep("gradle", extraction)

ExtractGradle ==
    /\ stage = "gradle"
    /\ world.hasGradle
    /\ GetDependenciesStep("aggregate",
            pushResult(extraction, getGradleDependencies(world.repoPath, world.gradle)))

SkipGradle ==
    /\ stage = "gradle"
    /\ ~world.hasGradle
    /\ GetDependenciesStep("aggregate", extraction)

\* no build tool was found: the warning, then the return
ReturnNoBuildTools ==
    /\ stage = "aggregate"
    /\ noBuildTools(extraction, world.hasMaven, world.hasGradle)
    /\ GetDependenciesStep("extracted",
            aggregated(extraction, world.hasMaven, world.hasGradle))

ReturnUnique ==
    /\ stage = "aggregate"
    /\ ~noBuildTools(extraction, world.hasMaven, world.hasGradle)
    /\ GetDependenciesStep("extracted",
            aggregated(extraction, world.hasMaven, world.hasGradle))

\* a fault raised inside the try block: by fs.existsSync or the detection,
\* by a parser, by the aggregation
OrchestratorFault ==
    /\ stage \in {"exists", "maven", "gradle", "aggregate"}
    /\ GetDependenciesStep("extracted", caughtFault(extraction, world.repoPath))

\* a return of evaluateS003ThirdPartyLicenses that made no compliance check
ReturnCriterion ==
    /\ stage = "extracted"
    /\ criterion' = evaluateExtracted(extraction, world.readme)
    /\ stage' = "evaluated"
    /\ UNCHANGED <<world, extraction, uniqueMap, cursor>>
    /\ UNCHANGED complianceVars
    /\ UNCHANGED callVars

\* if (errors.length > 0)
S003ExtractionErrors ==
    /\ Len(extraction.errors) > 0
    /\ ReturnCriterion

\* if (dependencies.length === 0)
S003NoDependencies ==
    /\ Len(extraction.errors) = 0
    /\ Len(extraction.dependencies) = 0
    /\ ReturnCriterion

\* findReadmeContent raises a fault: the catch block
S003Fault ==
    /\ Len(extraction.errors) = 0
    /\ Len(extraction.dependencies) > 0
    /\ world.readme.fault
    /\ ReturnCriterion

\* checkLicenseCompliance, then determineComplianceStatus
S003Evaluate ==
    /\ stage = "extracted"
    /\ Len(extraction.errors) = 0
    /\ Len(extraction.dependencies) > 0
    /\ ~world.readme.fault
    /\ dependencies' = extraction.dependencies
    /\ readmeContent' = world.readme.content
    /\ result' = checkLicenseCompliance(extraction.dependencies, world.readme.content)
    /\ issues' = result'.issues
    /\ idx' = Len(extraction.dependencies) + 1
    /\ pc' = "done"
    /\ criterion' = evaluateExtracted(extraction, world.readme)
    /\ stage' = "evaluated"
    /\ UNCHANGED <<depsIsArray, readmeIsString>>
    /\ UNCHANGED callVars
    /\ UNCHANGED <<world, extraction, uniqueMap, cursor>>

\* determineComplianceStatus called with a result and a flag
Determine ==
    /\ stage = "determineComplianceStatus"
    /\ criterion' = determineComplianceStatus(result, world.hasFallbackWarning)
    /\ stage' = "determined"
    /\ UNCHANGED <<world, extraction, uniqueMap, cursor>>
    /\ UNCHANGED complianceVars
    /\ UNCHANGED callVars

NextS003 ==
    \/ RejectRepoPath
    \/ EnterTry
    \/ PathMissing
    \/ Detected
    \/ ExtractMaven
    \/ SkipMaven
    \/ ExtractGradle
    \/ SkipGradle
    \/ ReturnNoBuildTools
    \/ ReturnUnique
    \/ OrchestratorFault
    \/ S003ExtractionErrors
    \/ S003NoDependencies
    \/ S003Fault
    \/ S003Evaluate
    \/ Determine

SpecS003 == InitS003 /\ [][NextS003]_vars

(***************************************************************************)
(* Claims about getDependencies and the S003 criterion                     *)
(***************************************************************************)
\* getDependencies is running
Extracting == stage \in {"getDependencies", "exists", "maven", "gradle", "aggregate"}

\* getDependencies has returned
Extracted == world.kind = "getDependencies" /\ stage \in {"extracted", "evaluated"}

\* the last entry of the errors is the one the catch block pushes
FaultReported ==
    /\ Len(extraction.errors) > 0
    /\ extraction.errors[Len(extraction.errors)]
        = OrchestratorError("Error extracting dependencies from", world.repoPath)

\* C12: getDependencies never throws: every step of a run leads to another
\* step or to the return of a result, and a fault raised inside it, at
\* whatever step, makes it return an empty dependencies list with an errors
\* entry whose source is the orchestrator.
C12_NeverThrows ==
    [][ /\ Extracting => stage' \in {"exists", "maven", "gradle", "aggregate", "extracted"}
        /\ OrchestratorFault =>
            /\ stage' = "extracted"
            /\ extraction'.dependencies = <<>>
            /\ FaultReported' ]_vars

\* a fault raised after the Maven extraction had reported an error of its own
C12_Witness ==
    /\ Extracted
    /\ FaultReported
    /\ Len(extraction.errors) > 1
    /\ extraction.dependencies = <<>>

\* the try block of getDependencies ran to its end
ReturnedUnique ==
    /\ Extracted
    /\ world.exists
    /\ isNonEmptyString(world.repoPath)
    /\ ~FaultReported

mavenResult == getMavenDependencies(world.repoPath, world.maven)

gradleResult == getGradleDependencies(world.repoPath, world.gradle)

\* the extraction ended with a fatal failure
Failed(parsed) == Len(parsed.errors) > 0

IsSubsequence(part, whole) ==
    \E from \in 0..Len(whole) - Len(part) :
        \A i \in 1..Len(part) : whole[from + i] = part[i]

\* every record of the parser's result that is a Dependency has its
\* (name, version) pair in the result of getDependencies
StillPresent(parsed) ==
    \A i \in 1..Len(parsed.dependencies) :
        isValidDependency(parsed.dependencies[i]) =>
            \E j \in 1..Len(extraction.dependencies) :
                PairOf(extraction.dependencies[j]) = PairOf(parsed.dependencies[i])

\* every record of the result of getDependencies is a record of the parser's
OnlyFrom(parsed) ==
    \A j \in 1..Len(extraction.dependencies) :
        \E i \in 1..Len(parsed.dependencies) :
            extraction.dependencies[j] = parsed.dependencies[i]

\* the failed extraction gave an error tagged with its parser and nothing
\* else; what the other extraction gave is in the result
OneFailed(failed, source, other) ==
    /\ \E i \in 1..Len(extraction.errors) : extraction.errors[i].source = source
    /\ failed.dependencies = <<>>
    /\ StillPresent(other)
    /\ OnlyFrom(other)
    /\ IsSubsequence(other.warnings, extraction.warnings)
    /\ IsSubsequence(other.errors, extraction.errors)

\* C13: when Maven and Gradle are both detected and the extraction of one of
\* them fails fatally (invalid path, crash, timeout, oversized output), the
\* result of getDependencies holds an error tagged with that parser and no
\* dependency of that build tool, and it holds the dependencies, the warnings
\* and the errors of the other extraction.
C13_SiblingsSurvive ==
    (ReturnedUnique /\ world.hasMaven /\ world.hasGradle) =>
        /\ Failed(mavenResult) => OneFailed(mavenResult, "maven-parser", gradleResult)
        /\ Failed(gradleResult) => OneFailed(gradleResult, "gradle-parser", mavenResult)

\* the Gradle build timed out after Maven's report had given a dependency
C13_Witness ==
    /\ ReturnedUnique
    /\ world.hasMaven
    /\ world.hasGradle
    /\ ~world.gradle.build.ok
    /\ isTimeoutError(world.gradle.build.error)
    /\ Len(mavenResult.dependencies) > 0
    /\ Len(extraction.dependencies) > 0

\* evaluateS003ThirdPartyLicenses has returned
S003Returned == world.kind = "getDependencies" /\ stage = "evaluated"

\* findReadmeContent raised a fault, caught by evaluateS003ThirdPartyLicenses
ThrewInternally ==
    /\ Len(extraction.errors) = 0
    /\ Len(extraction.dependencies) > 0
    /\ world.readme.fault

\* C14: evaluateS003ThirdPartyLicenses returns MANUAL whenever the
\* extraction reported an error, whatever dependencies it returned and
\* whatever their licenses, and also when no dependency was found and when a
\* fault is raised inside it.
C14_ManualOnErrors ==
    (S003Returned /\ (\/ Len(extraction.errors) > 0
                      \/ Len(extraction.dependencies) = 0
                      \/ ThrewInternally))
        => criterion.status = MANUAL

\* Gradle failed while Maven's report gave dependencies that all comply
C14_Witness ==
    /\ S003Returned
    /\ Len(extraction.errors) > 0
    /\ Len(extraction.dependencies) > 0
    /\ checkLicenseCompliance(extraction.dependencies, world.readme.content).compliant
    /\ criterion.status = MANUAL

\* Gradle's license report was absent: the dependencies task was used
GradleFellBack ==
    /\ world.hasGradle
    /\ world.gradle.pathValid
    /\ world.gradle.build.ok
    /\ ~world.gradle.report.present

\* Maven's build succeeded without a THIRD-PARTY.txt
MavenReportMissing ==
    /\ world.hasMaven
    /\ world.maven.pathValid
    /\ world.maven.build.ok
    /\ ~world.maven.report.present

\* the compliance check ran on the extracted dependencies and found no issue
EvaluatedCompliant == S003Returned /\ pc = "done" /\ result.compliant

\* C15: when the extraction of a build tool took a degraded path (Gradle's
\* dependencies task, Maven without its report) and the dependencies that
\* were extracted evaluate as compliant, evaluateS003ThirdPartyLicenses
\* returns MANUAL, never PASS.
C15_FallbackIsManual ==
    (EvaluatedCompliant /\ (GradleFellBack \/ MavenReportMissing))
        => criterion.status = MANUAL

\* determineComplianceStatus has returned: called on its own, or by
\* evaluateS003ThirdPartyLicenses
Determined ==
    \/ stage = "determined"
    \/ (S003Returned /\ pc = "done")

\* the flag determineComplianceStatus was called with
FallbackFlag ==
    IF world.kind = "determineComplianceStatus"
    THEN world.hasFallbackWarning
    ELSE hasFallbackWarning(extraction.warnings)

SomeIssueOfType(kind) ==
    \E i \in 1..Len(result.issues) : result.issues[i].issueType = kind

AllIssuesAmong(kinds) ==
    \A i \in 1..Len(result.issues) : result.issues[i].issueType \in kinds

\* C16: determineComplianceStatus returns PASS exactly when the result is
\* compliant and there is no fallback warning, FAIL exactly when the result
\* is not compliant and some issue is a Category X violation, and MANUAL in
\* every other case, in particular when the result is not compliant and all
\* its issues are unknown-license, no-license-info, undocumented Category B
\* or parser errors.
C16_StatusMapping ==
    Determined =>
        /\ criterion.status \in {PASS, FAIL, MANUAL}
        /\ criterion.status = PASS <=> (result.compliant /\ ~FallbackFlag)
        /\ criterion.status = FAIL <=>
            (~result.compliant /\ SomeIssueOfType(CATEGORY_X_VIOLATION))
        /\ (~result.compliant
            /\ AllIssuesAmong({UNKNOWN_LICENSE, NO_LICENSE_INFO,
                               UNDOCUMENTED_CATEGORY_B, PARSER_ERROR}))
                => criterion.status = MANUAL

\* a result with a Category X violation next to an issue that calls for review
C16_Witness ==
    /\ stage = "determined"
    /\ ~result.compliant
    /\ SomeIssueOfType(CATEGORY_X_VIOLATION)
    /\ SomeIssueOfType(UNKNOWN_LICENSE)
    /\ criterion.status = FAIL

(***************************************************************************)
(* The three parsers, each called on its own on a repository, and the      *)
(* compliance check of what it returned.                                   *)
(***************************************************************************)
\* what the file system holds at the resolved path; statSync throws on an
\* unreadable entry
PathEntries == {"missing", "file", "directory", "unreadable"}

RepoPaths == {<<>>, <<" ">>, RepoPath}

\* variant: the entry is not required to be a directory
validateRepoPath_existsOnly(repoPath, entry) ==
    /\ isNonEmptyString(repoPath)
    /\ entry \in {"file", "directory"}

\* parsers/common.ts: TRUE when a validated path is returned, FALSE for null
validateRepoPath(repoPath, entry) ==
    /\ isNonEmptyString(repoPath)
    /\ entry # "missing"
    /\ entry # "unreadable"
    /\ entry = "directory"

\* a parser called with repoPath in a repository whose files and command
\* outcomes are w; pathValid is what validateRepoPath makes of the path
ParserCall(kind, repoPath, entry, w) ==
    [kind |-> kind, repoPath |-> repoPath, entry |-> entry,
     w |-> [w EXCEPT !.pathValid = validateRepoPath(repoPath, entry)]]

ParserWorlds(n) ==
    {<<"getMavenDependencies", w>> : w \in MavenWorlds(ReportedLicensePool, n)}
    \cup {<<"getGradleDependencies", w>> : w \in GradleWorlds(ReportedLicensePool, n)}
    \cup {<<"getNpmDependencies", w>> : w \in NpmWorlds(ReportedLicensePool, n)}

ParserCalls(n) ==
    {ParserCall(kw[1], repoPath, entry, kw[2]) :
        kw \in ParserWorlds(n), repoPath \in RepoPaths, entry \in PathEntries}

\* the commands getMavenDependencies runs: the license plugin
mavenEffects(w) ==
    IF ~w.pathValid THEN <<>> ELSE <<"exec mvn license">>

\* the commands getGradleDependencies runs: the license report, and the
\* dependencies task when no report was generated
gradleEffects(w) ==
    IF ~w.pathValid THEN <<>>
    ELSE IF w.build.ok /\ ~w.report.present
    THEN <<"exec gradle generateLicenseReport", "exec gradle dependencies">>
    ELSE <<"exec gradle generateLicenseReport">>

\* what getNpmDependencies writes and runs: .npmrc unless it exists, the
\* install, and the license checker when the install succeeded
npmEffects(w, npmrcExists) ==
    IF ~w.pathValid THEN <<>>
    ELSE (IF npmrcExists THEN <<>> ELSE <<"write .npmrc">>)
         \o <<"exec yarn install">>
         \o (IF w.install.ok THEN <<"exec license-checker">> ELSE <<>>)

InitParsers ==
    /\ NoComplianceCall
    /\ NoCall
    /\ world \in ParserCalls(MaxLines)
    /\ stage = "parse"
    /\ extraction = EmptyExtraction
    /\ uniqueMap = <<>>
    /\ cursor = 0
    /\ criterion = NoCriterion

\* the parser returns parsed
ParserReturns(parsed, performed) ==
    /\ stage' = "parsed"
    /\ extraction' = parsed
    /\ effects' = performed
    /\ UNCHANGED <<world, uniqueMap, cursor, criterion>>
    /\ UNCHANGED complianceVars
    /\ UNCHANGED <<frame, returned>>

CallOf(kind) == stage = "parse" /\ world.kind = kind

MavenReturns ==
    ParserReturns(getMavenDependencies(world.repoPath, world.w),
                  mavenEffects(world.w))

\* validateRepoPath rejects the path
MavenInvalidPath ==
    /\ CallOf("getMavenDependencies")
    /\ ~world.w.pathValid
    /\ MavenReturns

\* the build is rejected: timeout, oversized output, or another failure
MavenBuildFails ==
    /\ CallOf("getMavenDependencies")
    /\ world.w.pathValid
    /\ ~world.w.build.ok
    /\ MavenReturns

MavenReportParsed ==
    /\ CallOf("getMavenDependencies")
    /\ world.w.pathValid
    /\ world.w.build.ok
    /\ world.w.report.present
    /\ MavenReturns

MavenReportAbsent ==
    /\ CallOf("getMavenDependencies")
    /\ world.w.pathValid
    /\ world.w.build.ok
    /\ ~world.w.report.present
    /\ MavenReturns

GradleReturns ==
    ParserReturns(getGradleDependencies(world.repoPath, world.w),
                  gradleEffects(world.w))

GradleInvalidPath ==
    /\ CallOf("getGradleDependencies")
    /\ ~world.w.pathValid
    /\ GradleReturns

GradleBuildFails ==
    /\ CallOf("getGradleDependencies")
    /\ world.w.pathValid
    /\ ~world.w.build.ok
    /\ GradleReturns

GradleReportParsed ==
    /\ CallOf("getGradleDependencies")
    /\ world.w.pathValid
    /\ world.w.build.ok
    /\ world.w.report.present
    /\ GradleReturns

\* no report: the dependencies task
GradleFallback ==
    /\ CallOf("getGradleDependencies")
    /\ world.w.pathValid
    /\ world.w.build.ok
    /\ ~world.w.report.present
    /\ world.w.listing.ok
    /\ GradleReturns

GradleFallbackFails ==
    /\ CallOf("getGradleDependencies")
    /\ world.w.pathValid
    /\ world.w.build.ok
    /\ ~world.w.report.present
    /\ ~world.w.listing.ok
    /\ GradleReturns

NpmReturns ==
    \E npmrcExists \in BOOLEAN :
        ParserReturns(getNpmDependencies(world.repoPath, world.w),
                      npmEffects(world.w, npmrcExists))

NpmInvalidPath ==
    /\ CallOf("getNpmDependencies")
    /\ ~world.w.pathValid
    /\ NpmReturns

\* the install or the license check is rejected: package.json is read
NpmFallback ==
    /\ CallOf("getNpmDependencies")
    /\ world.w.pathValid
    /\ (~world.w.install.ok \/ ~world.w.audit.ok)
    /\ NpmReturns

NpmLicensesChecked ==
    /\ CallOf("getNpmDependencies")
    /\ world.w.pathValid
    /\ world.w.install.ok
    /\ world.w.audit.ok
    /\ NpmReturns

\* checkLicenseCompliance(dependencies, '') on what the parser returned
CheckParsed ==
    /\ stage = "parsed"
    /\ dependencies' = extraction.dependencies
    /\ result' = checkLicenseCompliance(extraction.dependencies, <<>>)
    /\ issues' = result'.issues
    /\ idx' = Len(extraction.dependencies) + 1
    /\ pc' = "done"
    /\ stage' = "checked"
    /\ UNCHANGED <<depsIsArray, readmeContent, readmeIsString>>
    /\ UNCHANGED callVars
    /\ UNCHANGED <<world, extraction, uniqueMap, cursor, criterion>>

NextParsers ==
    \/ MavenInvalidPath
    \/ MavenBuildFails
    \/ MavenReportParsed
    \/ MavenReportAbsent
    \/ GradleInvalidPath
    \/ GradleBuildFails
    \/ GradleReportParsed
    \/ GradleFallback
    \/ GradleFallbackFails
    \/ NpmInvalidPath
    \/ NpmFallback
    \/ NpmLicensesChecked
    \/ CheckParsed

SpecParsers == InitParsers /\ [][NextParsers]_vars

(***************************************************************************)
(* Claims about the parsers                                                *)
(***************************************************************************)
\* the parser has returned
Parsed == stage \in {"parsed", "checked"}

ParsedBy(kind) == Parsed /\ world.kind = kind

\* a license expression: not an atomic license name
IsExpression(l) ==
    \/ HasSeparatorSyntax(l)
    \/ includes(l, <<" ", "W", "I", "T", "H", " ">>)

ReturnsExpression ==
    \E i \in 1..Len(extraction.dependencies) :
        /\ extraction.dependencies[i].hasLicenses
        /\ \E k \in 1..Len(extraction.dependencies[i].licenses) :
                IsExpression(extraction.dependencies[i].licenses[k])

\* C17: every license string of every Dependency a parser returns is an
\* atomic license name (no '|', no ' OR ', no ' AND ', no parenthesized or
\* WITH expression), so checkLicenseCompliance reports no parser error for
\* what a parser returned.
C17_ParsersReturnAtomicLicenses ==
    /\ Parsed => ~ReturnsExpression
    /\ stage = "checked" => ~SomeIssueOfType(PARSER_ERROR)

\* an external command the parser ran was killed by its timeout
CommandTimedOut(outcome) == ~outcome.ok /\ outcome.error = TimeoutError

MavenTimedOut ==
    /\ ParsedBy("getMavenDependencies")
    /\ world.w.pathValid
    /\ CommandTimedOut(world.w.build)

\* the build, or after it the dependencies task
GradleTimedOut ==
    /\ ParsedBy("getGradleDependencies")
    /\ world.w.pathValid
    /\ \/ CommandTimedOut(world.w.build)
       \/ (world.w.build.ok /\ ~world.w.report.present /\ CommandTimedOut(world.w.listing))

\* the install, or after it the license check
NpmTimedOut ==
    /\ ParsedBy("getNpmDependencies")
    /\ world.w.pathValid
    /\ \/ CommandTimedOut(world.w.install)
       \/ (world.w.install.ok /\ CommandTimedOut(world.w.audit))

\* C18: in each of the three parsers, when an external command exceeds its
\* timeout the result has an errors entry and an empty dependencies list.
C18_TimeoutIsAnError ==
    (MavenTimedOut \/ GradleTimedOut \/ NpmTimedOut) =>
        /\ Len(extraction.errors) > 0
        /\ extraction.dependencies = <<>>

\* the install or the license check of the npm parser failed
NpmPrimaryFailed ==
    /\ ParsedBy("getNpmDependencies")
    /\ world.w.pathValid
    /\ (~world.w.install.ok \/ ~world.w.audit.ok)

\* the entries of package.json that name a dependency and a version
UsableEntries ==
    IF world.w.packageJson.exists /\ ~world.w.packageJson.malformed
    THEN SelectSeq(world.w.packageJson.dependencies,
                   LAMBDA e : ~IsBlank(e.name) /\ ~IsBlank(e.version))
    ELSE <<>>

\* the records returned are the usable entries, without licenses
ReturnsDeclared ==
    /\ Len(extraction.dependencies) = Len(UsableEntries)
    /\ \A i \in 1..Len(UsableEntries) :
        /\ extraction.dependencies[i].name = UsableEntries[i].name
        /\ extraction.dependencies[i].version \in
                {UsableEntries[i].version, Tail(UsableEntries[i].version)}
        /\ ~extraction.dependencies[i].hasLicenses

\* C19: when the install or the license check of the npm parser fails and
\* package.json declares a direct dependency, getNpmDependencies returns the
\* declared dependencies without licenses, with a warning that tells of the
\* fallback and no error; when package.json is missing, malformed or declares
\* none, it returns no dependency and at least one error.
C19_NpmFallback ==
    NpmPrimaryFailed =>
        IF Len(UsableEntries) > 0
        THEN /\ ReturnsDeclared
             /\ Len(extraction.errors) = 0
             /\ hasFallbackWarning(extraction.warnings)
        ELSE /\ extraction.dependencies = <<>>
             /\ Len(extraction.errors) > 0

\* the license check crashed and package.json declares dep at ^1
C19_Witness ==
    /\ NpmPrimaryFailed
    /\ world.w.install.ok
    /\ world.w.audit.error = CrashError
    /\ Len(UsableEntries) > 0
    /\ Len(extraction.dependencies) > 0
    /\ extraction.dependencies[1].version = <<"1">>
    /\ Len(extraction.warnings) = 2

\* the reading of the third-party report of Maven found no file
MavenFellBack ==
    /\ ParsedBy("getMavenDependencies")
    /\ world.w.pathValid
    /\ world.w.build.ok
    /\ ~world.w.report.present

\* C20: when the Maven build succeeds and the third-party report is absent,
\* getMavenDependencies returns the dependencies that the dependency listing
\* shows, without licenses, with a warning and without an error.
C20_MavenFallsBackToListing ==
    MavenFellBack =>
        /\ Len(extraction.dependencies) = Len(world.w.listed)
        /\ \A i \in 1..Len(extraction.dependencies) :
                ~extraction.dependencies[i].hasLicenses
        /\ Len(extraction.warnings) > 0
        /\ Len(extraction.errors) = 0

(***************************************************************************)
(* The compliance check called on its own and the S003 criterion, explored *)
(* together.                                                               *)
(***************************************************************************)
InitCompliance == Init \/ InitS003

NextCompliance == Next \/ NextS003

SpecCompliance == InitCompliance /\ [][NextCompliance]_vars

\* the report of the only build tool detected has entries, and each of them
\* lacks a name or a version
OnlyMavenLacking ==
    /\ world.hasMaven
    /\ ~world.hasGradle
    /\ world.maven.pathValid
    /\ world.maven.build.ok
    /\ world.maven.report.present
    /\ Len(world.maven.report.lines) > 0
    /\ \A i \in 1..Len(world.maven.report.lines) :
            IsBlank(world.maven.report.lines[i].version)

OnlyGradleLacking ==
    /\ world.hasGradle
    /\ ~world.hasMaven
    /\ world.gradle.pathValid
    /\ world.gradle.build.ok
    /\ world.gradle.report.present
    /\ ~world.gradle.report.malformed
    /\ Len(world.gradle.report.modules) > 0
    /\ \A i \in 1..Len(world.gradle.report.modules) :
            \/ IsBlank(world.gradle.report.modules[i].moduleName)
            \/ IsBlank(world.gradle.report.modules[i].version)

\* C22: every Dependency in the result of getDependencies, and every
\* dependency checkLicenseCompliance records an issue for, has a non-blank
\* name and a non-blank version; a record that lacks one of them is dropped
\* and leaves no error, no warning and no issue.
C22_OnlyValidRecords ==
    /\ (world.kind = "getDependencies" /\ Extracted) =>
        /\ \A i \in 1..Len(extraction.dependencies) :
                WellFormed(extraction.dependencies[i])
        /\ (ReturnedUnique /\ (OnlyMavenLacking \/ OnlyGradleLacking)) =>
                extraction = ExtractionResult(<<>>, <<>>, <<>>)
    /\ Evaluated =>
        /\ \A k \in 1..Len(result.issues) :
                WellFormed(dependencies[result.issues[k].dependency])
        /\ \A i \in 1..Len(dependencies) :
                ~WellFormed(dependencies[i]) => IssuesOf(i) = <<>>

\* a dependency without a version between two that get an issue
C22_Witness ==
    /\ Evaluated
    /\ world.kind = "none"
    /\ Len(dependencies) = 2
    /\ ~WellFormed(dependencies[1])
    /\ dependencies[1].hasLicenses
    /\ Len(result.issues) = 1
    /\ result.issues[1].dependency = 2

(***************************************************************************)
(* The two splitters called on their own: on a license text, and then on   *)
(* an element of the list the first call returned.                         *)
(***************************************************************************)
MaxNameLen == 3

SplitAlphabet == {"a", "M", "|", "(", ")", " "}

\* every text of at most n characters of the alphabet
TextsUpTo(alphabet, n) == UNION {[1..k -> alphabet] : k \in 0..n}

SplitNames ==
    {<<"M", "I", "T">>, <<"m", "i", "t">>, <<"E", "c", "l", "i", "p", "s", "e">>, <<"e", "c", "l", "i", "p", "s", "e">>, <<"G", "P", "L", "-", "3", ".", "0">>, <<" ", "m", "i", "t", " ">>,
     <<"(", "M", "I", "T", ")">>, <<"M", "I", "T", " ", "O", "R", " ", "G", "P", "L", "-", "3", ".", "0">>, <<"(", "m", "i", "t", " ", "A", "N", "D", " ", "E", "c", "l", "i", "p", "s", "e", ")">>, <<"m", "i", "t", "|", "E", "c", "l", "i", "p", "s", "e">>,
     <<"f", "o", "o", " ", "W", "I", "T", "H", " ", "b", "a", "r">>}

SplitInputs == TextsUpTo(SplitAlphabet, MaxNameLen) \cup SplitNames

InitSplit ==
    /\ NoComplianceCall
    /\ world \in [kind : {"split"}, license : SplitInputs]
    /\ stage = "idle"
    /\ extraction = EmptyExtraction
    /\ uniqueMap = <<>>
    /\ cursor = 0
    /\ criterion = NoCriterion
    /\ frame = NoFrame
    /\ returned = <<>>
    /\ effects = <<>>

Call(fn, arg, value) == [fn |-> fn, arg |-> arg, value |-> value]

\* the text the next call of fn is given: the input, or an element of the
\* list the first call of fn returned
SplitArguments(fn) ==
    IF returned = <<>> THEN {world.license}
    ELSE IF Len(returned) = 1 /\ returned[1].fn = fn
    THEN {returned[1].value[k] : k \in 1..Len(returned[1].value)}
    ELSE {}

SplitDual ==
    /\ world.kind = "split"
    /\ \E license \in SplitArguments("splitDualLicenses") :
         returned' = Append(returned,
            Call("splitDualLicenses", license, splitDualLicenses(license)))
    /\ UNCHANGED complianceVars
    /\ UNCHANGED extractionVars
    /\ UNCHANGED <<frame, effects>>

SplitSpdx ==
    /\ world.kind = "split"
    /\ \E license \in SplitArguments("splitSpdxLicenses") :
         returned' = Append(returned,
            Call("splitSpdxLicenses", license, splitSpdxLicenses(license)))
    /\ UNCHANGED complianceVars
    /\ UNCHANGED extractionVars
    /\ UNCHANGED <<frame, effects>>

NextSplit == SplitDual \/ SplitSpdx

SpecSplit == InitSplit /\ [][NextSplit]_vars

\* an atomic name as a splitter is given it: no separator syntax, and for
\* the npm splitter, which trims before it normalizes, no surrounding blanks
AtomicFor(fn, l) ==
    /\ Atomic(l)
    /\ (fn = "splitSpdxLicenses" => l = trim(l))

SplitOnce == Len(returned) >= 1 /\ AtomicFor(returned[1].fn, returned[1].arg)

SplitTwice == Len(returned) = 2 /\ SplitOnce

ParserTag ==
    IF world.kind = "getMavenDependencies" THEN "maven-parser"
    ELSE IF world.kind = "getGradleDependencies" THEN "gradle-parser"
    ELSE "npm-parser"

\* a parser has returned from a call whose path is empty, does not exist or
\* is not a directory
InvalidPathCall ==
    /\ Parsed
    /\ \/ IsBlank(world.repoPath)
       \/ world.entry # "directory"

\* C24: a parser called with a project root that is empty, does not exist
\* or is not a directory runs no external command and writes no file, and
\* returns exactly one error tagged with that parser, no dependency and no
\* warning.
C24_ValidationFirst ==
    InvalidPathCall =>
        /\ effects = <<>>
        /\ extraction.dependencies = <<>>
        /\ extraction.warnings = <<>>
        /\ Len(extraction.errors) = 1
        /\ extraction.errors[1].source = ParserTag

\* the npm parser is given a file where every command would have succeeded
C24_Witness ==
    /\ InvalidPathCall
    /\ world.kind = "getNpmDependencies"
    /\ world.entry = "file"
    /\ ~IsBlank(world.repoPath)
    /\ world.w.install.ok
    /\ world.w.audit.ok

(***************************************************************************)
(* CompositeLanguageEvaluator.evaluate over an ordered list of section     *)
(* evaluators; every await of a section is a step.                         *)
(***************************************************************************)
MaxSections == 3

\* what a section's evaluate does: it throws, or it resolves to its results
SectionThrowing == [threw |-> TRUE, results |-> <<>>]

SectionReturning(ids) == [threw |-> FALSE, results |-> ids]

SectionOutcomes ==
    {SectionThrowing}
    \cup {SectionReturning(ids) :
            ids \in {<<>>, <<"X001">>, <<"X001", "X002">>, <<"Y001">>}}

InitComposite ==
    /\ NoComplianceCall
    /\ world \in [kind : {"evaluate"},
                  sections : ListsOf(SectionOutcomes, MaxSections)]
    /\ stage = "idle"
    /\ extraction = EmptyExtraction
    /\ uniqueMap = <<>>
    /\ cursor = 0
    /\ criterion = NoCriterion
    /\ frame = [status |-> "running", results |-> <<>>, next |-> 1]
    /\ returned = <<>>
    /\ effects = <<>>

InLoop == world.kind = "evaluate" /\ frame.status = "running"

CompositeStep ==
    /\ UNCHANGED complianceVars
    /\ UNCHANGED extractionVars
    /\ UNCHANGED effects

\* results.push(...sectionResults)
SectionResolves ==
    /\ InLoop
    /\ frame.next <= Len(world.sections)
    /\ ~world.sections[frame.next].threw
    /\ frame' = [frame EXCEPT !.results = @ \o world.sections[frame.next].results,
                              !.next = @ + 1]
    /\ returned' = Append(returned,
            Call("section.evaluate", frame.next, world.sections[frame.next]))
    /\ CompositeStep

\* variant: the error leaves evaluate
caught_rethrown(f) == [f EXCEPT !.status = "thrown"]

\* the catch block logs the error; the function then returns results
caught(f) == [f EXCEPT !.status = "returned"]

SectionThrows ==
    /\ InLoop
    /\ frame.next <= Len(world.sections)
    /\ world.sections[frame.next].threw
    /\ frame' = caught(frame)
    /\ returned' = Append(returned,
            Call("section.evaluate", frame.next, world.sections[frame.next]))
    /\ CompositeStep

\* the loop is over
EvaluateReturns ==
    /\ InLoop
    /\ frame.next > Len(world.sections)
    /\ frame' = [frame EXCEPT !.status = "returned"]
    /\ UNCHANGED returned
    /\ CompositeStep

NextComposite == SectionResolves \/ SectionThrows \/ EvaluateReturns

SpecComposite == InitComposite /\ [][NextComposite]_vars

\* the sections before the first one that throws, or all of them
CompletedSections ==
    LET throwing == {i \in 1..Len(world.sections) : world.sections[i].threw}
    IN  IF throwing = {} THEN Len(world.sections)
        ELSE (CHOOSE i \in throwing : \A j \in throwing : i <= j) - 1

SomeSectionThrows == CompletedSections < Len(world.sections)

\* C25: evaluate never throws; it runs the section evaluators in their
\* declared order and returns the concatenation of their results, and when
\* a section throws, no later section is run and the returned list is the
\* results of the sections that completed before it.
C25_PartialResultsNoThrow ==
    /\ frame.status # "thrown"
    /\ \A i \in 1..Len(returned) : returned[i].arg = i
    /\ frame.status = "returned" =>
        /\ frame.results =
            flatten([i \in 1..CompletedSections |-> world.sections[i].results])
        /\ Len(returned) =
            IF SomeSectionThrows THEN CompletedSections + 1 ELSE CompletedSections

\* the second of three sections throws between two that have results
C25_Witness ==
    /\ frame.status = "returned"
    /\ Len(world.sections) = 3
    /\ CompletedSections = 1
    /\ world.sections[1].results # <<>>
    /\ world.sections[3].results # <<>>
    /\ frame.results = world.sections[1].results

\* the orders in which n licenses can be listed
ListingOrders(n) ==
    {p \in [1..n -> 1..n] : \A i, j \in 1..n : p[i] = p[j] => i = j}

\* the array with the licenses of its i-th dependency listed in order p
Relisted(deps, i, p) ==
    [deps EXCEPT ![i].licenses = [k \in 1..Len(deps[i].licenses) |-> deps[i].licenses[p[k]]]]

\* the S003 status for the array: checkLicenseCompliance followed by
\* determineComplianceStatus
StatusOf(deps, fallback) ==
    determineComplianceStatus(checkLicenseCompliance(deps, readmeContent), fallback).status

EvaluatedOnText == Evaluated /\ readmeIsString /\ world.kind = "none"

\* C27: permuting the licenses of any dependency leaves the status returned
\* by checkLicenseCompliance followed by determineComplianceStatus unchanged.
C27_StatusIgnoresLicenseOrder ==
    EvaluatedOnText =>
        \A i \in 1..Len(dependencies) :
            \A p \in ListingOrders(Len(dependencies[i].licenses)) :
                \A fallback \in BOOLEAN :
                    StatusOf(Relisted(dependencies, i, p), fallback)
                        = determineComplianceStatus(result, fallback).status

\* what the licenses of d that are not blank come to on their own
KindsAlone(d) ==
    {KindAlone(d, d.licenses[k]) : k \in {j \in 1..Len(d.licenses) : ~IsBlank(d.licenses[j])}}

\* no license of d is compliant or unknown on its own, and the failures
\* are of both kinds: an undocumented Conditional license and a Prohibited one
MixedFailures(d) ==
    KindsAlone(d) = {UNDOCUMENTED_CATEGORY_B, CATEGORY_X_VIOLATION}

\* C27 (amended): permuting the licenses of a dependency never changes
\* whether the call is compliant, and leaves the S003 status unchanged
\* unless the licenses of that dependency fail in both ways, undocumented
\* Conditional and Prohibited, with none compliant or unknown: the first
\* failure in listing order is then the one reported.
C27_StatusIgnoresOrderUnlessMixed ==
    EvaluatedOnText =>
        \A i \in 1..Len(dependencies) :
            \A p \in ListingOrders(Len(dependencies[i].licenses)) :
                /\ checkLicenseCompliance(Relisted(dependencies, i, p), readmeContent).compliant
                    = result.compliant
                /\ ~MixedFailures(dependencies[i]) =>
                    \A fallback \in BOOLEAN :
                        StatusOf(Relisted(dependencies, i, p), fallback)
                            = determineComplianceStatus(result, fallback).status

\* a dependency lists a Prohibited license before an Approved one
C27_Witness ==
    /\ EvaluatedOnText
    /\ Len(dependencies) = 1
    /\ ListsAtomic(dependencies[1], 2)
    /\ KindAlone(dependencies[1], dependencies[1].licenses[1]) = CATEGORY_X_VIOLATION
    /\ CompliantAlone(dependencies[1], dependencies[1].licenses[2])
    /\ result.compliant

\* C28: deduplicateDependencies merges two records only when they have the
\* same name and the same version: every (name, version) pair of the input
\* is the pair of a record of the output, so that two valid records that
\* differ in name or in version are both present.
C28_DistinctPairsBothKept ==
    Deduplicated =>
        \A i \in 1..Len(extraction.dependencies) :
            Retained(PairOf(extraction.dependencies[i])) # {}

AtomicNames == {l \in LicensePool : Atomic(l)}

\* the i-th dependency of the call with license l appended to its list
WithAppended(i, l) ==
    [dependencies[i] EXCEPT !.hasLicenses = TRUE, !.licenses = Append(@, l)]

\* the i-th dependency lists licenses and the call reported no issue for it
ListedWithoutIssue(i) ==
    /\ dependencies[i].hasLicenses
    /\ Len(dependencies[i].licenses) >= 1
    /\ IssuesOf(i) = <<>>

\* C29: appending a further atomic license name to the licenses of a
\* dependency for which checkLicenseCompliance reports no issue never makes
\* it report one, also when the list grows from one license to two.
C29_AlternativesMonotone ==
    EvaluatedOnText =>
        \A i \in 1..Len(dependencies) :
            ListedWithoutIssue(i) =>
                \A l \in AtomicNames :
                    dependencyIssues(i, WithAppended(i, l), readmeContent) = <<>>

\* a dependency whose single license is Conditional and documented has no
\* issue, and a Prohibited license could be appended
C29_Witness ==
    /\ EvaluatedOnText
    /\ Len(dependencies) >= 1
    /\ ListedWithoutIssue(1)
    /\ WellFormed(dependencies[1])
    /\ Len(dependencies[1].licenses) = 1
    /\ getLicenseCategoryNormalized(dependencies[1].licenses[1]) = "B"
    /\ \E l \in AtomicNames : KindAlone(dependencies[1], l) = CATEGORY_X_VIOLATION

(***************************************************************************)
(* The npm parser that asks the registry (getNpmDependencies with          *)
(* fetchNpmLicense and processBatched).  The tasks of a batch are started  *)
(* one after the other without a yield: each checks the cache and issues   *)
(* its request; the requests then settle in any order.  licenseCache is    *)
(* module state and outlives a call.                                       *)
(***************************************************************************)
MAX_CONCURRENT_REQUESTS == 10

MaxDeclared == 2

MaxFiles == 1

MaxCalls == 2

\* an entry of the dependencies or devDependencies object of a package.json
Declared(name, versionSpec) == [name |-> name, version |-> versionSpec]

\* the last entry has a blank version specifier
DeclaredPool ==
    {Declared(<<"a">>, <<"b", ":", "c">>), Declared(<<"a", ":", "b">>, <<"c">>),
     Declared(<<"p">>, <<"^", "1">>), Declared(<<"q">>, <<" ">>)}

\* Object.entries of an object: no name twice
EntryLists(n) ==
    {es \in ListsOf(DeclaredPool, n) :
        \A i, j \in 1..Len(es) : es[i].name = es[j].name => i = j}

UnparsablePackageJson == [parsed |-> FALSE, entries |-> <<>>]

ParsedPackageJson(entries) == [parsed |-> TRUE, entries |-> entries]

Manifests(n) ==
    {UnparsablePackageJson} \cup {ParsedPackageJson(es) : es \in EntryLists(n)}

\* what the registry does with a request for a package
Licensed(text) == [kind |-> "license", text |-> text]

Failing(kind) == [kind |-> kind, text |-> <<>>]

FailureKinds == {"http-error", "timeout", "unparsable"}

Registry(forA, forAB, forP) ==
    (<<"a">> :> forA) @@ (<<"a", ":", "b">> :> forAB) @@ (<<"p">> :> forP)

Registries ==
    {Registry(Licensed(<<"M", "I", "T">>), Failing("http-error"), forP) :
        forP \in {Licensed(<<"M", "I", "T", " ", "O", "R", " ", "G", "P", "L", "-", "3", ".", "0">>), Failing("no-license"),
                  Failing("http-error"), Failing("timeout"), Failing("unparsable")}}

respond(registry, name) ==
    IF name \in DOMAIN registry THEN registry[name] ELSE Licensed(<<"M", "I", "T">>)

\* a package.json that declares n packages, all of them licensed
ManyDeclared(n) ==
    ParsedPackageJson([k \in 1..n |-> Declared(<<"p">> \o [j \in 1..k |-> "x"], <<"^", "1">>)])

RegistryWorld(pathValid, files, registry) ==
    [kind |-> "registry", pathValid |-> pathValid, files |-> files, registry |-> registry]

RegistryWorlds ==
    {RegistryWorld(TRUE, files, registry) :
        files \in ListsOf(Manifests(MaxDeclared), MaxFiles), registry \in Registries}
    \cup {RegistryWorld(TRUE, <<ManyDeclared(n)>>, <<>>) :
            n \in {MAX_CONCURRENT_REQUESTS, MAX_CONCURRENT_REQUESTS + 1}}
    \cup {RegistryWorld(FALSE, <<>>, <<>>)}

\* `${packageName}:${versionSpec}`, the key of licenseCache and of uniqueDeps
registryKey(name, versionSpec) == name \o <<":">> \o versionSpec

UnknownLicenses == <<<<"U", "n", "k", "n", "o", "w", "n">>>>

\* licenseCache.has(key); the Map is kept as the function from its keys to
\* its values, since it is never iterated
cacheHas(cache, key) == key \in DOMAIN cache

\* licenseCache.set(key, value)
cacheSet(cache, key, value) ==
    [k \in DOMAIN cache \cup {key} |-> IF k = key THEN value ELSE cache[k]]

\* fetchNpmLicense after a cache miss: what it stores in the cache and
\* returns; the catch block turns every failure into ['Unknown']
fetchOutcome(response) ==
    IF response.kind = "license"
    THEN [threw |-> FALSE, licenses |-> splitSpdxLicenses(response.text)]
    ELSE [threw |-> FALSE, licenses |-> UnknownLicenses]

\* what a task returns: the try/catch around fetchNpmLicense
TaskResult(task, outcome) ==
    [key |-> task.key, name |-> task.name, version |-> task.version,
     hasInfo |-> ~outcome.threw, licenses |-> outcome.licenses,
     error |-> outcome.threw]

\* the entries that are looked up: both strings non-blank, key not yet in
\* uniqueDeps
depsToFetch(entries, unique) ==
    LET kept == SelectSeq(entries, LAMBDA e :
                    /\ isNonEmptyString(e.name)
                    /\ isNonEmptyString(e.version)
                    /\ ~mapHas(unique, registryKey(e.name, e.version)))
    IN  [k \in 1..Len(kept) |->
            [name |-> kept[k].name, version |-> kept[k].version,
             key |-> registryKey(kept[k].name, kept[k].version)]]

\* variant: a batch takes one task more than the limit
batchOf_oneMore(n, i, limit) ==
    {t \in 1..n : i < t /\ t <= i + limit + 1}

\* tasks.slice(i, i + concurrencyLimit), as positions of the tasks array
batchOf(n, i, limit) ==
    {t \in 1..n : i < t /\ t <= i + limit}

\* the elements of a set of positions, in increasing order
RECURSIVE inOrder(_)
inOrder(positions) ==
    IF positions = {} THEN <<>>
    ELSE LET least == CHOOSE t \in positions : \A u \in positions : t <= u
         IN  <<least>> \o inOrder(positions \ {least})

\* the result loop of getNpmDependencies over the first n fetch results
RECURSIVE uniqueDepsAfter(_, _, _)
uniqueDepsAfter(unique, results, n) ==
    IF n = 0 THEN unique
    ELSE IF results[n].error
    THEN mapSet(uniqueDepsAfter(unique, results, n - 1), results[n].key,
                Unlicensed(results[n].name, results[n].version))
    ELSE mapSet(uniqueDepsAfter(unique, results, n - 1), results[n].key,
                Dependency(results[n].name, results[n].version, TRUE, results[n].licenses))

FetchFailedWarning(fetched) ==
    ExtractionWarning("npm-parser",
        <<"F", "a", "i", "l", "e", "d", " ", "t", "o", " ", "f", "e", "t", "c", "h", " ", "l", "i", "c", "e", "n", "s", "e", " ", "f", "o", "r", " ">> \o fetched.name \o <<"@">> \o fetched.version)

\* the warnings pushed by the result loop
fetchWarnings(results) ==
    LET failed == SelectSeq(results, LAMBDA r : r.error)
    IN  [k \in 1..Len(failed) |-> FetchFailedWarning(failed[k])]

\* the local variables of a call that has just validated its path; the
\* cache is what the module holds
CallFrame(call, cache) ==
    [status |-> "files", call |-> call, file |-> 1, licenseCache |-> cache,
     uniqueDeps |-> <<>>, warnings |-> <<>>, tasks |-> <<>>, i |-> 0,
     results |-> <<>>, started |-> <<>>, inflight |-> {}, settled |-> <<>>]

InitRegistry ==
    /\ NoComplianceCall
    /\ world \in RegistryWorlds
    /\ stage = "idle"
    /\ extraction = EmptyExtraction
    /\ uniqueMap = <<>>
    /\ cursor = 0
    /\ criterion = NoCriterion
    /\ frame = CallFrame(1, <<>>)
    /\ returned = <<>>
    /\ effects = <<>>

RegistryStep ==
    /\ UNCHANGED complianceVars
    /\ UNCHANGED extractionVars

AtFiles == world.kind = "registry" /\ frame.status = "files"

Returns(value) ==
    /\ frame' = [frame EXCEPT !.status = "returned"]
    /\ returned' = Append(returned, value)
    /\ UNCHANGED effects
    /\ RegistryStep

\* validateRepoPath returns null
RegistryInvalidPath ==
    /\ AtFiles
    /\ ~world.pathValid
    /\ Returns(ExtractionResult(<<>>,
            <<ExtractionError("npm-parser", "Invalid repository path", RepoPath)>>, <<>>))

\* packageJsonPaths is empty
NoPackageJsonFound ==
    /\ AtFiles
    /\ world.pathValid
    /\ Len(world.files) = 0
    /\ Returns(ExtractionResult(<<>>, <<>>,
            <<ExtractionWarning("npm-parser", <<"N", "o", " ", "p", "a", "c", "k", "a", "g", "e", ".", "j", "s", "o", "n", " ", "f", "i", "l", "e", "s", " ", "f", "o", "u", "n", "d", " ", "i", "n", " ", "r", "e", "p", "o", "s", "i", "t", "o", "r", "y">>)>>))

AtFile ==
    /\ AtFiles
    /\ world.pathValid
    /\ frame.file <= Len(world.files)

\* parsePackageJson returns null: a warning, and the next file
SkipUnparsable ==
    /\ AtFile
    /\ ~world.files[frame.file].parsed
    /\ frame' = [frame EXCEPT
            !.warnings = Append(@, ExtractionWarning("npm-parser", <<"F", "a", "i", "l", "e", "d", " ", "t", "o", " ", "p", "a", "r", "s", "e", " ", "p", "a", "c", "k", "a", "g", "e", ".", "j", "s", "o", "n">>)),
            !.file = @ + 1]
    /\ UNCHANGED <<returned, effects>>
    /\ RegistryStep

\* the file is parsed and its tasks are built; processBatched is entered
ReadPackageJson ==
    /\ AtFile
    /\ world.files[frame.file].parsed
    /\ frame' = [frame EXCEPT
            !.status = "batches",
            !.tasks = depsToFetch(world.files[frame.file].entries, frame.uniqueDeps),
            !.i = 0, !.results = <<>>, !.started = <<>>]
    /\ UNCHANGED <<returned, effects>>
    /\ RegistryStep

\* the tasks of the next batch are called: a task whose key is cached has
\* its result at once, the others have a request under way
StartedBatch(batch, hits) ==
    /\ frame' = [frame EXCEPT
            !.status = "batch",
            !.started = @ \o inOrder(batch),
            !.inflight = batch \ hits,
            !.settled = [t \in hits |->
                TaskResult(frame.tasks[t],
                    [threw |-> FALSE,
                     licenses |-> frame.licenseCache[frame.tasks[t].key]])]]
    /\ effects' = effects \o [k \in 1..Cardinality(batch \ hits) |->
                                frame.tasks[inOrder(batch \ hits)[k]].name]
    /\ UNCHANGED returned
    /\ RegistryStep

StartBatch ==
    /\ world.kind = "registry"
    /\ frame.status = "batches"
    /\ frame.i < Len(frame.tasks)
    /\ StartedBatch(batchOf(Len(frame.tasks), frame.i, MAX_CONCURRENT_REQUESTS),
                    {t \in batchOf(Len(frame.tasks), frame.i, MAX_CONCURRENT_REQUESTS) :
                        cacheHas(frame.licenseCache, frame.tasks[t].key)})

\* the request of task t settles: fetchNpmLicense stores its result in the
\* cache and the task returns
Settled(t, outcome) ==
    /\ frame' = [frame EXCEPT
            !.licenseCache = IF outcome.threw THEN @
                             ELSE cacheSet(@, frame.tasks[t].key, outcome.licenses),
            !.inflight = @ \ {t},
            !.settled = [u \in DOMAIN frame.settled \cup {t} |->
                            IF u = t THEN TaskResult(frame.tasks[t], outcome)
                            ELSE frame.settled[u]]]
    /\ UNCHANGED <<returned, effects>>
    /\ RegistryStep

LookupSettles ==
    /\ world.kind = "registry"
    /\ frame.status = "batch"
    /\ \E t \in frame.inflight :
            Settled(t, fetchOutcome(respond(world.registry, frame.tasks[t].name)))

\* Promise.all resolves: results.push(...batchResults), i += concurrencyLimit
BatchSettled ==
    /\ world.kind = "registry"
    /\ frame.status = "batch"
    /\ frame.inflight = {}
    /\ frame' = [frame EXCEPT
            !.status = "batches",
            !.results = @ \o [k \in 1..Cardinality(DOMAIN frame.settled) |->
                                frame.settled[inOrder(DOMAIN frame.settled)[k]]],
            !.i = @ + MAX_CONCURRENT_REQUESTS,
            !.settled = <<>>]
    /\ UNCHANGED <<returned, effects>>
    /\ RegistryStep

\* processBatched has returned: the result loop, and the next file
ProcessFetchResults ==
    /\ world.kind = "registry"
    /\ frame.status = "batches"
    /\ frame.i >= Len(frame.tasks)
    /\ frame' = [frame EXCEPT
            !.status = "files",
            !.uniqueDeps = uniqueDepsAfter(@, frame.results, Len(frame.results)),
            !.warnings = @ \o fetchWarnings(frame.results),
            !.file = @ + 1,
            !.tasks = <<>>, !.results = <<>>, !.started = <<>>, !.i = 0]
    /\ UNCHANGED <<returned, effects>>
    /\ RegistryStep

\* dependencies.push(...Array.from(uniqueDeps.values()))
ReturnDependencies ==
    /\ AtFiles
    /\ world.pathValid
    /\ Len(world.files) > 0
    /\ frame.file > Len(world.files)
    /\ Returns(ExtractionResult(mapValues(frame.uniqueDeps), <<>>, frame.warnings))

\* getNpmDependencies is called again in the same process
CallAgain ==
    /\ world.kind = "registry"
    /\ frame.status = "returned"
    /\ frame.call < MaxCalls
    /\ frame' = CallFrame(frame.call + 1, frame.licenseCache)
    /\ UNCHANGED <<returned, effects>>
    /\ RegistryStep

NextRegistry ==
    \/ RegistryInvalidPath
    \/ NoPackageJsonFound
    \/ SkipUnparsable
    \/ ReadPackageJson
    \/ StartBatch
    \/ LookupSettles
    \/ BatchSettled
    \/ ProcessFetchResults
    \/ ReturnDependencies
    \/ CallAgain

SpecRegistry == InitRegistry /\ [][NextRegistry]_vars

InRegistryCall == world.kind = "registry"

\* processBatched has run all its batches and is about to return
BatchesDone ==
    /\ InRegistryCall
    /\ frame.status = "batches"
    /\ frame.i >= Len(frame.tasks)

\* C21: at every moment at most MAX_CONCURRENT_REQUESTS license lookups
\* have been started and have not settled, whatever the number of declared
\* dependencies and the order in which the requests settle; every task is
\* started exactly once, and its result is returned in its position.
C21_BoundedFanOut ==
    InRegistryCall =>
        /\ Cardinality(frame.inflight) <= MAX_CONCURRENT_REQUESTS
        /\ \A a, b \in 1..Len(frame.started) :
                frame.started[a] = frame.started[b] => a = b
        /\ BatchesDone =>
            /\ frame.started = [k \in 1..Len(frame.tasks) |-> k]
            /\ Len(frame.results) = Len(frame.tasks)
            /\ \A k \in 1..Len(frame.tasks) :
                /\ frame.results[k].key = frame.tasks[k].key
                /\ frame.results[k].name = frame.tasks[k].name
                /\ frame.results[k].version = frame.tasks[k].version

\* one dependency more than the limit has been looked up, in two batches
C21_Witness ==
    /\ BatchesDone
    /\ Len(frame.tasks) = MAX_CONCURRENT_REQUESTS + 1
    /\ Len(effects) = MAX_CONCURRENT_REQUESTS + 1

\* the valid entries the package.json files of the repository declare
DeclaredEntries ==
    {e \in UNION {{world.files[f].entries[k] : k \in 1..Len(world.files[f].entries)} :
                    f \in 1..Len(world.files)} :
        isNonEmptyString(e.name) /\ isNonEmptyString(e.version)}

\* what a lookup of entry e computes from the registry's answer
ComputedFor(e) == fetchOutcome(respond(world.registry, e.name)).licenses

\* the cache holds, for the key of every declared (name, versionSpec), what
\* a lookup of that pair computes
CacheHoldsOwnValues ==
    InRegistryCall =>
        \A e \in DeclaredEntries :
            cacheHas(frame.licenseCache, registryKey(e.name, e.version)) =>
                frame.licenseCache[registryKey(e.name, e.version)] = ComputedFor(e)

\* a batch is started: a task whose key the cache holds gets the cached
\* licenses and issues no request
CachedLookupsAskNothing ==
    (InRegistryCall /\ frame.status = "batches" /\ frame'.status = "batch") =>
        /\ \A t \in DOMAIN frame'.settled \cup frame'.inflight :
            cacheHas(frame.licenseCache, frame.tasks[t].key) =>
                /\ t \notin frame'.inflight
                /\ frame'.settled[t].licenses = frame.licenseCache[frame.tasks[t].key]
        /\ Len(effects') = Len(effects) + Cardinality(frame'.inflight)

\* C26: the license-lookup cache is keyed by (packageName, versionSpec) and
\* is safe under the fan-out: once a lookup for a key has completed, a later
\* lookup with the same key returns the cached licenses without a registry
\* request, and the cache never holds for a key a value that was computed
\* for a different (packageName, versionSpec).
C26_CacheKeyedByPair ==
    /\ []CacheHoldsOwnValues
    /\ [][CachedLookupsAskNothing]_vars

\* the registry lookup of entry e fails: HTTP error, timeout or a response
\* that cannot be parsed
LookupFails(e) == respond(world.registry, e.name).kind \in FailureKinds

\* the first call has returned
FirstCallReturned == InRegistryCall /\ world.pathValid /\ Len(returned) >= 1

\* C30: for every declared dependency whose registry lookup fails,
\* getNpmDependencies records a warning naming it and returns it with
\* licenses undefined, so that a failed lookup differs from a package that
\* declares an unrecognized license.
C30_FailedLookupIsWarned ==
    FirstCallReturned =>
        \A e \in DeclaredEntries :
            LookupFails(e) =>
                /\ \E w \in 1..Len(returned[1].warnings) :
                        returned[1].warnings[w] = FetchFailedWarning(e)
                /\ \E d \in 1..Len(returned[1].dependencies) :
                        /\ returned[1].dependencies[d].name = e.name
                        /\ returned[1].dependencies[d].version = e.version
                        /\ ~returned[1].dependencies[d].hasLicenses

====
